---- MODULE Spec2Model ----
(***************************************************************************)
(* A model of the LeadsDB Go client (package leadsdb): the resilient       *)
(* request executor Client.do with its retry classifier and backoff        *)
(* policy, and the structured API error's category matching.               *)
(*                                                                         *)
(* Steps of Client.do are delimited by its suspension points (the network  *)
(* round trip and the backoff wait); the code between two suspension       *)
(* points is one action.                                                   *)
(***************************************************************************)
EXTENDS Integers, Sequences, FiniteSets, TLC

(***************************************************************************)
(* Fixed-width integers.  Go's int, int64 and time.Duration are 64-bit     *)
(* two's-complement integers; they are modelled as little-endian byte      *)
(* sequences so that wrap-around is exact.  Sequences of WideBytes bytes   *)
(* serve as the mathematical integers the claims are stated in.            *)
(***************************************************************************)
Base == 2^8

Int64Bytes == 64 \div 8

WideBytes == 2 * Int64Bytes

\* the one element of a one-element set; The({F(a) : a \in {v}}) is F of the
\* value of v, v being evaluated before F is
The(S) == CHOOSE r \in S : TRUE

\* the sequence of the w values f[1], ..., f[w]
Bytes(f, w) == SubSeq(f, 1, w)

Zero(w) == Bytes([i \in 1..w |-> 0], w)

\* the bytes of a natural below 2^31
NatBytes(n, w) ==
    Bytes([i \in 1..w |-> IF i <= 4 THEN (n \div Base^(i - 1)) % Base ELSE 0], w)

\* the carry into byte i of x + y: some lower byte overflows and every byte
\* between passes the carry on
Carry(x, y, i) ==
    IF \E j \in 1..(i - 1) :
          /\ x[j] + y[j] >= Base
          /\ \A k \in (j + 1)..(i - 1) : x[k] + y[k] = Base - 1
    THEN 1 ELSE 0

\* x + y modulo Base^Len(x)
Add(x, y) ==
    Bytes([i \in 1..Len(x) |-> (x[i] + y[i] + Carry(x, y, i)) % Base], Len(x))

\* x * Base^k modulo Base^Len(x)
ShiftBytes(x, k) ==
    Bytes([i \in 1..Len(x) |-> IF i <= k THEN 0 ELSE x[i - k]], Len(x))

\* x * y modulo Base^Len(x), for y below Base^4: the column sums of the
\* byte products, each below Base^3, added up byte by byte
Mul(x, y) ==
    LET w == Len(x)
        term(i, k) == IF k <= i THEN x[i + 1 - k] * y[k] ELSE 0
        col(i) == term(i, 1) + term(i, 2) + term(i, 3) + term(i, 4)
        d0 == Bytes([i \in 1..w |-> col(i) % Base], w)
        d1 == Bytes([i \in 1..w |-> (col(i - 1) \div Base) % Base], w)
        d2 == Bytes([i \in 1..w |-> col(i - 2) \div (Base * Base)], w)
    IN  The({Add(low, d2) : low \in {Add(d0, d1)}})

Neg(x) ==
    Add(Bytes([i \in 1..Len(x) |-> Base - 1 - x[i]], Len(x)), NatBytes(1, Len(x)))

IsNeg(x) == x[Len(x)] >= Base \div 2

\* unsigned comparison: the highest byte that differs decides
ULess(x, y) ==
    \E i \in 1..Len(x) :
       /\ x[i] < y[i]
       /\ \A k \in (i + 1)..Len(x) : x[k] = y[k]

\* signed comparison of two numbers of the same width
Less(x, y) == IF IsNeg(x) # IsNeg(y) THEN IsNeg(x) ELSE ULess(x, y)

LessEq(x, y) == x = y \/ Less(x, y)

\* sign extension of a 64-bit value to the wide integers
Widen(x) ==
    Bytes([i \in 1..WideBytes |->
              IF i <= Len(x) THEN x[i] ELSE IF IsNeg(x) THEN Base - 1 ELSE 0], WideBytes)

\* conversion to a 64-bit type keeps the low 64 bits
Narrow(x) == Bytes(x, Int64Bytes)

\* Go's x << n for n >= 0, modulo Base^Len(x): whole bytes, then the
\* remaining bits
Shl(x, n) ==
    The({ShiftBytes(bits, n \div 8) : bits \in {Mul(x, NatBytes(2^(n % 8), Len(x)))}})

\* a small integer as an int64
I64(n) ==
    IF n >= 0 THEN NatBytes(n, Int64Bytes) ELSE Neg(NatBytes(-n, Int64Bytes))

\* the int64 zero
Zero64 == I64(0 * 1)

\* a small natural as a wide integer
Wide(n) == NatBytes(n, WideBytes)

MaxInt64 ==
    Bytes([i \in 1..Int64Bytes |-> IF i = Int64Bytes THEN Base \div 2 - 1 ELSE Base - 1],
          Int64Bytes)

MinInt64 ==
    Bytes([i \in 1..Int64Bytes |-> IF i = Int64Bytes THEN Base \div 2 ELSE 0], Int64Bytes)

(***************************************************************************)
(* Program constants.                                                      *)
(***************************************************************************)
\* time.Millisecond and time.Second, in nanoseconds
Millisecond == 1000 * 1000

Second == 1000 * Millisecond

DefaultMaxRetries == 3

DefaultBaseDelay == 1 * Second

maxJitter == 500 * Millisecond

\* time.Second and DefaultBaseDelay as values of time.Duration
SecondDuration == I64(Second)

BaseDelayDuration == I64(DefaultBaseDelay)

StatusOK == 200

StatusMultipleChoices == 300

StatusUnauthorized == 401

StatusForbidden == 403

StatusNotFound == 404

StatusTooManyRequests == 429

StatusInternalServerError == 500

StatusBadGateway == 502

StatusServiceUnavailable == 503

StatusGatewayTimeout == 504

(***************************************************************************)
(* strconv.Atoi on a header value, a sequence of characters: an optional   *)
(* sign and decimal digits; anything else is a syntax error, a value that  *)
(* does not fit the 64-bit int a range error.                              *)
(***************************************************************************)
Digits == <<"0", "1", "2", "3", "4", "5", "6", "7", "8", "9">>

IsDigit(c) == \E d \in 1..Len(Digits) : Digits[d] = c

DigitVal(c) == (CHOOSE d \in 1..Len(Digits) : Digits[d] = c) - 1

ChunkLen == Len(Digits) - 1

\* the value of digit k of s, counted from the right, 0 past its left end
Place(s, k) ==
    IF k <= Len(s) THEN DigitVal(s[Len(s) + 1 - k]) * Len(Digits)^(k - 1) ELSE 0

\* the value of a string of at most ChunkLen digits
SmallDecimal(s) ==
    Place(s, 1) + Place(s, 2) + Place(s, 3) + Place(s, 4) + Place(s, 5)
    + Place(s, 6) + Place(s, 7) + Place(s, 8) + Place(s, 9)

\* the c-th chunk of ChunkLen characters of s, counted from the right
Chunk(s, c) ==
    LET first == Len(s) - c * ChunkLen + 1
    IN  SubSeq(s, IF first < 1 THEN 1 ELSE first, Len(s) - (c - 1) * ChunkLen)

\* the value of a string of at most 3 * ChunkLen digits, as a wide integer
DecimalValue(s) ==
    LET giga == Wide(Len(Digits)^ChunkLen)
        part(c) == Wide(SmallDecimal(Chunk(s, c)))
        high    == The({Add(a, part(2)) : a \in {Mul(part(3), giga)}})
    IN  The({Add(c, part(1)) : c \in {The({Mul(b, giga) : b \in {high}})}})

Atoi(s) ==
    LET signed == s # <<>> /\ Head(s) \in {"+", "-"}
        digits == IF signed THEN Tail(s) ELSE s
        mag    == DecimalValue(digits)
        val    == IF signed /\ Head(s) = "-" THEN Neg(mag) ELSE mag
    IN  IF digits = <<>> \/ \E i \in 1..Len(digits) : ~IsDigit(digits[i])
          THEN [err |-> "syntax", n |-> Zero64]
        ELSE IF Less(val, Widen(MinInt64)) \/ Less(Widen(MaxInt64), val)
          THEN [err |-> "range", n |-> Zero64]
        ELSE [err |-> "nil", n |-> Narrow(val)]

(***************************************************************************)
(* Errors.  Every error value is a record of one shape; "at" is the        *)
(* attempt (0-based) that produced it, which tells apart the errors of     *)
(* different attempts.                                                     *)
(***************************************************************************)
Error(kind, at, cause, status, code, message, retryAfter) ==
    [kind |-> kind, at |-> at, cause |-> cause, StatusCode |-> status,
     Code |-> code, Message |-> message, RetryAfter |-> retryAfter]

\* the nil error
NilErr == Error("nil", 0, "", 0, "", "", Zero64)

\* json.Marshal failed on the request body
MarshalErr == Error("marshal", 0, "", 0, "", "", Zero64)

\* http.NewRequestWithContext failed
RequestErr(at) == Error("request", at, "", 0, "", "", Zero64)

\* context.Canceled, as returned by ctx.Err()
CtxCanceled(at) == Error("ctx", at, "ctx", 0, "", "", Zero64)

\* httpClient.Do failed; cause "ctx" when it failed because the request's
\* context was cancelled, "net" otherwise
TransportErr(at, cause) == Error("transport", at, cause, 0, "", "", Zero64)

\* io.ReadAll failed on the response body
ReadErr(at, cause) == Error("read", at, cause, 0, "", "", Zero64)

\* json.Unmarshal failed on a 2xx body
DecodeErr(at) == Error("decode", at, "", 0, "", "", Zero64)

\* http.StatusText: the generic reason phrase of a status
StatusText(status) == "reason phrase"

(***************************************************************************)
(* Client.shouldRetry(statusCode, err); err is TRUE for a non-nil error.   *)
(***************************************************************************)
\* faulty variants: every failure is retried; only transport failures are
\* retried; 502 is left out of the transient statuses
shouldRetryAnyFailure(statusCode, err) == TRUE

shouldRetryTransportOnly(statusCode, err) == err

shouldRetryNoBadGateway(statusCode, err) ==
    IF err THEN TRUE
    ELSE statusCode \in {StatusTooManyRequests, StatusInternalServerError,
                         StatusServiceUnavailable, StatusGatewayTimeout}

shouldRetry(statusCode, err) ==
    IF err THEN TRUE
    ELSE statusCode \in {StatusTooManyRequests, StatusInternalServerError,
                         StatusBadGateway, StatusServiceUnavailable,
                         StatusGatewayTimeout}

(***************************************************************************)
(* APIError.Is(target): the sentinel an API error matches.                 *)
(***************************************************************************)
Sentinels ==
    {"ErrNotFound", "ErrUnauthorized", "ErrRateLimited", "ErrForbidden", "ErrInternal"}

\* faulty variant: the body's code decides the not-found category as well
IsByCode(e, target) ==
    CASE e.StatusCode = StatusUnauthorized        -> target = "ErrUnauthorized"
      [] e.StatusCode = StatusForbidden           -> target = "ErrForbidden"
      [] e.StatusCode = StatusNotFound            -> target = "ErrNotFound"
      [] e.StatusCode = StatusTooManyRequests     -> target = "ErrRateLimited"
      [] e.StatusCode = StatusInternalServerError -> target = "ErrInternal"
      [] OTHER                                    ->
            e.Code = "not_found" /\ target = "ErrNotFound"

Is(e, target) ==
    CASE e.StatusCode = StatusUnauthorized        -> target = "ErrUnauthorized"
      [] e.StatusCode = StatusForbidden           -> target = "ErrForbidden"
      [] e.StatusCode = StatusNotFound            -> target = "ErrNotFound"
      [] e.StatusCode = StatusTooManyRequests     -> target = "ErrRateLimited"
      [] e.StatusCode = StatusInternalServerError -> target = "ErrInternal"
      [] OTHER                                    -> FALSE

(***************************************************************************)
(* The structured error Client.do builds from a non-2xx response: the      *)
(* status, the body's code and message (no body, or a body that does not   *)
(* decode, leaves them empty), the reason phrase when the message is       *)
(* empty, and for 429 the Retry-After header when strconv.Atoi accepts it. *)
(***************************************************************************)
\* faulty variant: the Retry-After header is read on every status
newAPIErrorAnyStatus(at, status, body, retryAfterHdr) ==
    LET code    == IF body.kind = "json" THEN body.code ELSE ""
        msg     == IF body.kind = "json" THEN body.message ELSE ""
        message == IF msg = "" THEN StatusText(status) ELSE msg
        parsed  == Atoi(retryAfterHdr)
        hint    == IF retryAfterHdr # <<>> /\ parsed.err = "nil"
                   THEN parsed.n ELSE Zero64
    IN  Error("api", at, "", status, code, message, hint)

newAPIError(at, status, body, retryAfterHdr) ==
    LET code    == IF body.kind = "json" THEN body.code ELSE ""
        msg     == IF body.kind = "json" THEN body.message ELSE ""
        message == IF msg = "" THEN StatusText(status) ELSE msg
        parsed  == Atoi(retryAfterHdr)
        hint    == IF status = StatusTooManyRequests /\ retryAfterHdr # <<>>
                      /\ parsed.err = "nil"
                   THEN parsed.n ELSE Zero64
    IN  Error("api", at, "", status, code, message, hint)

(***************************************************************************)
(* Client.backoff: the timer's duration for an attempt index, a            *)
(* retry-after hint in seconds and a drawn jitter.                         *)
(***************************************************************************)
\* values rand.Int64N(n) may return: 0 <= v < n, sampled at both ends and
\* in the middle
Int64N(n) == {0, n \div 2, n - 1}

\* faulty variant: the delay grows linearly, base * (attempt + 1)
backoffDelayLinear(attempt, retryAfter, jit) ==
    The({Add(delay, I64(jit)) :
            delay \in {IF Less(Zero64, retryAfter)
                       THEN Mul(retryAfter, SecondDuration)
                       ELSE Mul(BaseDelayDuration, I64(attempt + 1))}})

backoffDelay(attempt, retryAfter, jit) ==
    The({Add(delay, I64(jit)) :
            delay \in {IF Less(Zero64, retryAfter)
                       THEN Mul(retryAfter, SecondDuration)
                       ELSE Shl(BaseDelayDuration, attempt)}})

(***************************************************************************)
(* Bounds and input samples of the model.                                  *)
(***************************************************************************)
\* Client.maxRetries ranges over -1..MaxRetriesBound (WithMaxRetries takes any int)
MaxRetriesBound == 3

\* status codes of the classifier checks range over 0..MaxStatus
MaxStatus == 599

\* attempt indexes of the backoff checks range over 0..MaxAttempt
MaxAttempt == 40

\* the transient statuses, as the specification lists them
TransientStatuses == {429, 500, 502, 503, 504}

IsSuccess(status) == status >= StatusOK /\ status < StatusMultipleChoices

\* statuses the server answers with in the model of Client.do
StatusSamples ==
    {StatusOK, StatusOK + 4, StatusMultipleChoices + 1, StatusNotFound - 4,
     StatusNotFound} \cup TransientStatuses

EmptyBody == [kind |-> "empty", code |-> "", message |-> ""]

\* response bodies: none, JSON (an entity, or an error with its fields), not JSON
BodiesFor(status) ==
    IF IsSuccess(status)
    THEN {EmptyBody,
          [kind |-> "json", code |-> "", message |-> ""],
          [kind |-> "malformed", code |-> "", message |-> ""]}
    ELSE {EmptyBody,
          [kind |-> "json", code |-> "E42", message |-> "detail"],
          [kind |-> "json", code |-> "E42", message |-> ""]}

\* Retry-After header values, as character sequences; <<>> is no header
RetryAfterHeaders ==
    {<<>>, <<"2">>, <<"0">>, <<"-", "1">>, <<"+", "3">>, <<"2", ".", "5">>,
     <<"W", "e", "d", ",">>,
     <<"9", "2", "2", "3", "3", "7", "2", "0", "3", "6">>,
     <<"9", "2", "2", "3", "3", "7", "2", "0", "3", "7">>,
     <<"9", "2", "2", "3", "3", "7", "2", "0", "3", "6", "8", "5", "4", "7", "7", "5", "8", "0", "8">>}

HeadersFor(status) ==
    IF status = StatusTooManyRequests THEN RetryAfterHeaders ELSE {<<>>, <<"2">>}

(***************************************************************************)
(* State.                                                                  *)
(***************************************************************************)
VARIABLES
    maxRetries,   \* Client.maxRetries
    wantResult,   \* whether do was given a result to decode into
    prep,         \* which preparation fails: "marshal", "request" or "ok"
    pc,           \* "start", "inflight", "backoff", "done"
    attempt,      \* the loop variable of do
    ctxDone,      \* whether ctx is cancelled
    lastErr,      \* do's lastErr
    delay,        \* the duration of backoff's timer while it waits
    ret,          \* the error do returned
    decoded,      \* whether do decoded a body into result
    jitter,       \* history: the jitter drawn for the current wait
    attempts,     \* history: calls of httpClient.Do
    waits,        \* history: calls of backoff
    history,      \* history: the class of every attempt's outcome
    resp,         \* history: the outcome of the latest attempt
    cancelledAt,  \* history: where do was when ctx was cancelled, or "no"
    fn,           \* the function applied in the function checks, or "none"
    arg,          \* its arguments
    called,       \* whether it has been applied
    out           \* its result

doVars ==
    <<maxRetries, wantResult, prep, pc, attempt, ctxDone, lastErr, delay, ret,
      decoded, jitter, attempts, waits, history, resp, cancelledAt>>

fnVars == <<fn, arg, called, out>>

VARIABLES
    stream,       \* the input of a batcher run: what the producer and the clock do
    bpc,          \* where BulkCreateFromChan's task is, or BulkCreate's caller
    batch,        \* the task's batch
    timerArmed,   \* whether the task's timer is running
    received,     \* history: records taken from the input stream
    inClosed,     \* whether the producer has closed the input stream
    trigger,      \* what called flush: "timer", "size" or "close"
    outcome,      \* flush's result and err, as BulkCreate returned them
    idx,          \* the loop variable of flush's emitting loops
    errBuf,       \* the buffer of the errors outlet
    emitted,      \* history: what the current flush has sent on each outlet
    closed,       \* history: the outlets closed, in the order of the calls
    request,      \* history: the leads of the latest bulk-create request
    submissions,  \* history: bulk-create calls that reached the network
    handed,       \* history: the batches flush has called BulkCreate with
    discarded     \* history: the batches whose call of BulkCreate failed

batchVars ==
    <<stream, bpc, batch, timerArmed, received, inClosed, trigger, outcome, idx,
      errBuf, emitted, closed, request, submissions, handed, discarded>>

VARIABLES
    pages,        \* the input of a paged run: the server's pages
    ipc,          \* where IteratorChan's task is
    page,         \* iterate's result: the page List returned
    cursor,       \* iterate's cursor
    fetched,      \* history: the parameters of every page request
    opts,         \* the caller's list options
    shape,        \* who runs iterate: "chan" (IteratorChan) or "pull" (Iterator)
    served,       \* history: the results List has returned with a nil error
    stopped       \* history: whether the consumer's yield has returned false

iterVars == <<pages, ipc, page, cursor, fetched, opts, shape, served, stopped>>

streamVars == <<batchVars, iterVars>>

vars == <<doVars, fnVars, streamVars>>

NoResp == [kind |-> "none", status |-> 0, hdr |-> <<>>, body |-> EmptyBody]

FnArg(statusCode, err, target, code, message, att, retryAfter, jit) ==
    [statusCode |-> statusCode, err |-> err, target |-> target, code |-> code,
     message |-> message, attempt |-> att, retryAfter |-> retryAfter, jit |-> jit]

NoArg == FnArg(0, FALSE, "", "", "", 0, Zero64, 0)

NoOut == [b |-> FALSE, d |-> Zero64]

DoIdle ==
    /\ pc = "start"
    /\ attempt = 0
    /\ ctxDone = FALSE
    /\ lastErr = NilErr
    /\ delay = Zero64
    /\ ret = NilErr
    /\ decoded = FALSE
    /\ jitter = 0
    /\ attempts = 0
    /\ waits = 0
    /\ history = <<>>
    /\ resp = NoResp
    /\ cancelledAt = "no"

\* a producer that sends nothing, with no flaw in any record
NoStream ==
    [total |-> 0, closes |-> FALSE, gaps |-> {}, flaw |-> [id |-> 0, field |-> "none"]]

\* what BulkCreate returns: the error, and the entries of the decoded result
Outcome(err, created, errors) == [err |-> err, Created |-> created, Errors |-> errors]

NoOutcome == Outcome(NilErr, <<>>, <<>>)

NoEmitted == [results |-> <<>>, errs |-> <<>>]

\* no batcher has been started
BatchIdle ==
    /\ stream = NoStream
    /\ bpc = "idle"
    /\ batch = <<>>
    /\ timerArmed = FALSE
    /\ received = 0
    /\ inClosed = FALSE
    /\ trigger = "none"
    /\ outcome = NoOutcome
    /\ idx = 0
    /\ errBuf = <<>>
    /\ emitted = NoEmitted
    /\ closed = <<>>
    /\ request = <<>>
    /\ submissions = 0
    /\ handed = <<>>
    /\ discarded = <<>>

\* the empty cursor, and the cursor the server hands out with its k-th page
NoCursor == <<>>

CursorOf(k) == <<"after", k>>

\* the zero value of ListResult
NoPage == [Leads |-> <<>>, HasMore |-> FALSE, NextCursor |-> NoCursor]

\* a server without pages
NoPages == [sizes |-> <<>>, mute |-> 0]

\* neither IteratorChan nor Iterator has been started
IterIdle ==
    /\ pages = NoPages
    /\ ipc = "idle"
    /\ page = NoPage
    /\ cursor = NoCursor
    /\ fetched = <<>>
    /\ opts = <<>>
    /\ shape = "none"
    /\ served = <<>>
    /\ stopped = FALSE

\* New with WithMaxRetries(n), then one call of do
Init ==
    /\ maxRetries \in -1..MaxRetriesBound
    /\ wantResult \in BOOLEAN
    /\ prep \in {"ok", "marshal", "request"}
    /\ DoIdle
    /\ fn = "none"
    /\ arg = NoArg
    /\ called = FALSE
    /\ out = NoOut
    /\ BatchIdle
    /\ IterIdle

(***************************************************************************)
(* Client.do.                                                              *)
(***************************************************************************)
Return(e, d) ==
    /\ pc' = "done"
    /\ ret' = e
    /\ decoded' = d

\* faulty variant: one turn too many
rangeHasNextInclusive(a, n) == a <= n

\* `for attempt := range c.maxRetries`: whether the loop body runs for attempt
rangeHasNext(a, n) == a < n

\* faulty variant: the cancellation is not looked at
ctxErrIgnored(done, at) == NilErr

\* ctx.Err()
ctxErr(done, at) == IF done THEN CtxCanceled(at) ELSE NilErr

\* the call of backoff: the timer is set and do waits
StartBackoff(a, retryAfter) ==
    /\ \E j \in Int64N(maxJitter) :
          /\ jitter' = j
          /\ delay' = backoffDelay(a, retryAfter, j)
    /\ waits' = waits + 1
    /\ pc' = "backoff"
    /\ UNCHANGED <<ret, decoded>>

\* faulty variant: a generic error instead of the last one
loopResultGeneric(last) == Error("exhausted", 0, "", 0, "", "", Zero64)

\* what do returns when the loop ends: `return lastErr`
loopResult(last) == last

\* one turn of the loop for attempt index a, from its head to the call of
\* httpClient.Do; when the range is exhausted, the return after the loop
LoopHead(a) ==
    /\ attempt' = a
    /\ IF ~rangeHasNext(a, maxRetries)
         THEN Return(loopResult(lastErr), FALSE) /\ UNCHANGED attempts
       ELSE IF ctxErr(ctxDone, a) # NilErr
         THEN Return(ctxErr(ctxDone, a), FALSE) /\ UNCHANGED attempts
       ELSE IF prep = "request"
         THEN Return(RequestErr(a), FALSE) /\ UNCHANGED attempts
       ELSE /\ pc' = "inflight"
            /\ attempts' = attempts + 1
            /\ UNCHANGED <<ret, decoded>>

\* do is called: the body is marshalled once, then the loop starts
DoStart ==
    /\ pc = "start"
    /\ IF prep = "marshal"
       THEN Return(MarshalErr, FALSE) /\ UNCHANGED <<attempt, attempts>>
       ELSE LoopHead(0)
    /\ UNCHANGED <<maxRetries, wantResult, prep, ctxDone, lastErr, delay,
                   jitter, waits, history, resp, cancelledAt>>
    /\ UNCHANGED <<fnVars, streamVars>>

\* httpClient.Do returns an error.  The request carries ctx, so a request in
\* flight when ctx is cancelled fails with the context's error.
DoTransportFail ==
    /\ pc = "inflight"
    /\ LET err == TransportErr(attempt, IF ctxDone THEN "ctx" ELSE "net")
       IN  /\ lastErr' = err
           /\ history' = Append(history, "transport")
           /\ resp' = [NoResp EXCEPT !.kind = "transport"]
           /\ IF ~shouldRetry(0, TRUE)
              THEN Return(err, FALSE) /\ UNCHANGED <<delay, jitter, waits>>
              ELSE StartBackoff(attempt, Zero64)
    /\ UNCHANGED <<maxRetries, wantResult, prep, attempt, ctxDone, attempts, cancelledAt>>
    /\ UNCHANGED <<fnVars, streamVars>>

\* httpClient.Do returns a response whose body io.ReadAll fails to read
DoReadFail ==
    /\ pc = "inflight"
    /\ \E status \in StatusSamples :
          resp' = [NoResp EXCEPT !.kind = "read", !.status = status]
    /\ history' = Append(history, "read")
    /\ Return(ReadErr(attempt, IF ctxDone THEN "ctx" ELSE "net"), FALSE)
    /\ UNCHANGED <<maxRetries, wantResult, prep, attempt, ctxDone, lastErr, delay,
                   jitter, attempts, waits, cancelledAt>>
    /\ UNCHANGED <<fnVars, streamVars>>

\* httpClient.Do returns a response and its body is read in full
DoResponse ==
    /\ pc = "inflight"
    /\ ~ctxDone
    /\ \E status \in StatusSamples :
       \E body \in BodiesFor(status) :
       \E hdr \in HeadersFor(status) :
          /\ resp' = [kind |-> "response", status |-> status, hdr |-> hdr, body |-> body]
          /\ IF IsSuccess(status)
             THEN /\ history' = Append(history, "success")
                  /\ IF wantResult /\ body.kind # "empty"
                     THEN IF body.kind = "malformed"
                          THEN Return(DecodeErr(attempt), FALSE)
                          ELSE Return(NilErr, TRUE)
                     ELSE Return(NilErr, FALSE)
                  /\ UNCHANGED <<lastErr, delay, jitter, waits>>
             ELSE \E apiErr \in {newAPIError(attempt, status, body, hdr)} :
                      /\ history' = Append(history,
                             IF status \in TransientStatuses THEN "transient" ELSE "fatal")
                      /\ lastErr' = apiErr
                      /\ IF ~shouldRetry(status, FALSE)
                         THEN Return(apiErr, FALSE) /\ UNCHANGED <<delay, jitter, waits>>
                         ELSE StartBackoff(attempt, apiErr.RetryAfter)
    /\ UNCHANGED <<maxRetries, wantResult, prep, attempt, ctxDone, attempts, cancelledAt>>
    /\ UNCHANGED <<fnVars, streamVars>>

\* backoff returns and the loop takes its next turn
Wake ==
    /\ LoopHead(attempt + 1)
    /\ delay' = Zero64
    /\ jitter' = 0
    /\ resp' = NoResp
    /\ UNCHANGED <<maxRetries, wantResult, prep, ctxDone, lastErr, waits, history,
                   cancelledAt>>
    /\ UNCHANGED <<fnVars, streamVars>>

\* backoff's select: case <-timer.C
BackoffTimer ==
    /\ pc = "backoff"
    /\ Wake

\* backoff's select: case <-ctx.Done()
BackoffCancelled ==
    /\ pc = "backoff"
    /\ ctxDone
    /\ Wake

\* the caller cancels ctx, at any moment before do has returned
Cancel ==
    /\ pc # "done"
    /\ ~ctxDone
    /\ ctxDone' = TRUE
    /\ cancelledAt' = pc
    /\ UNCHANGED <<maxRetries, wantResult, prep, pc, attempt, lastErr, delay, ret,
                   decoded, jitter, attempts, waits, history, resp>>
    /\ UNCHANGED <<fnVars, streamVars>>

Next ==
    \/ DoStart
    \/ DoTransportFail
    \/ DoReadFail
    \/ DoResponse
    \/ BackoffTimer
    \/ BackoffCancelled
    \/ Cancel

Spec == Init /\ [][Next]_vars

(***************************************************************************)
(* The function checks: shouldRetry, APIError.Is and the duration backoff  *)
(* computes, each applied once to arguments drawn from bounded sets.       *)
(***************************************************************************)
ShouldRetryArgs ==
    {FnArg(st, e, "", "", "", 0, Zero64, 0) : st \in 0..MaxStatus, e \in BOOLEAN}

\* the sentinels and an error that is none of them
Targets == Sentinels \cup {"context.Canceled"}

IsArgs ==
    {FnArg(st, FALSE, t, c, m, 0, Zero64, 0) :
        st \in 0..MaxStatus, t \in Targets,
        c \in {"", "not_found", "unauthorized"},
        m \in {"reason phrase", "leadsdb: not found", "leadsdb: rate limited"}}

BackoffArgs ==
    {FnArg(0, FALSE, "", "", "", a, I64(h), j) :
        a \in 0..MaxAttempt, h \in {0 - 1, 0, 2}, j \in Int64N(maxJitter)}

ArgsOf(f) ==
    CASE f = "shouldRetry" -> ShouldRetryArgs
      [] f = "Is"          -> IsArgs
      [] f = "backoff"     -> BackoffArgs

FnInit ==
    /\ maxRetries = DefaultMaxRetries
    /\ wantResult = FALSE
    /\ prep = "ok"
    /\ DoIdle
    /\ fn \in {"shouldRetry", "Is", "backoff"}
    /\ arg \in ArgsOf(fn)
    /\ called = FALSE
    /\ out = NoOut
    /\ BatchIdle
    /\ IterIdle

CallShouldRetry ==
    /\ fn = "shouldRetry"
    /\ ~called
    /\ called' = TRUE
    /\ out' = [b |-> shouldRetry(arg.statusCode, arg.err), d |-> Zero64]
    /\ UNCHANGED <<fn, arg>>
    /\ UNCHANGED <<doVars, streamVars>>

CallIs ==
    /\ fn = "Is"
    /\ ~called
    /\ called' = TRUE
    /\ out' = [b |-> Is(Error("api", 0, "", arg.statusCode, arg.code, arg.message, Zero64),
                        arg.target),
               d |-> Zero64]
    /\ UNCHANGED <<fn, arg>>
    /\ UNCHANGED <<doVars, streamVars>>

CallBackoff ==
    /\ fn = "backoff"
    /\ ~called
    /\ called' = TRUE
    /\ out' = [b |-> FALSE, d |-> backoffDelay(arg.attempt, arg.retryAfter, arg.jit)]
    /\ UNCHANGED <<fn, arg>>
    /\ UNCHANGED <<doVars, streamVars>>

FnNext ==
    \/ CallShouldRetry
    \/ CallIs
    \/ CallBackoff

SpecFn == FnInit /\ [][FnNext]_vars

(***************************************************************************)
(* Client.BulkCreate and the task of Client.BulkCreateFromChan.            *)
(*                                                                         *)
(* A step of the task runs from one point where it can block (the select   *)
(* of its loop, the call of BulkCreate, a select of flush) to the next.    *)
(* A select with several ready cases runs any one of them.  The call of    *)
(* Client.do inside BulkCreate is taken as a whole: it returns at once     *)
(* when its loop makes no attempt, and otherwise puts the request on the   *)
(* network and returns an error or a decoded result later.                 *)
(***************************************************************************)
maxBatchSize == 100

\* the pauses of the producer and the flawed record of a stream are drawn
\* from the first MaxGap records
MaxGap == 2

\* the capacity of the errors outlet: make(chan error, 1)
errsCap == 1

\* the number of records the producer sends
StreamTotals ==
    0..(MaxGap + 1) \cup {maxBatchSize - 1, maxBatchSize, maxBatchSize + 1}

Flaws ==
    {NoStream.flaw} \cup {[id |-> i, field |-> f] : i \in 1..MaxGap, f \in {"Name", "Source"}}

\* the inputs of a batcher run: how many records the producer sends, whether
\* it closes the stream after the last one, after which records it pauses for
\* longer than the flush timeout, and which record lacks a field
Streams ==
    {s \in [total : StreamTotals, closes : BOOLEAN,
            gaps : {{}} \cup {{g} : g \in 1..MaxGap}, flaw : Flaws] :
        /\ \A g \in s.gaps : g < s.total
        /\ s.flaw.id <= s.total
        /\ s.total > MaxGap + 1 => s.flaw.id = 0}

\* the i-th record of a stream
Lead(s, i) ==
    [id |-> i,
     Name |-> IF s.flaw = [id |-> i, field |-> "Name"] THEN "" ELSE "name",
     Source |-> IF s.flaw = [id |-> i, field |-> "Source"] THEN "" ELSE "source"]

\* the lists BulkCreate is called with directly
DirectLists ==
    {[i \in 1..n |-> Lead(NoStream, i)] : n \in {0, 1, maxBatchSize, maxBatchSize + 1}}
        \cup {<<Lead(NoStream, 1), Lead([NoStream EXCEPT !.flaw = f], 2)>> :
                 f \in {[id |-> 2, field |-> "Name"], [id |-> 2, field |-> "Source"]}}

ValidationErr(message, index) == Error("validation", index, message, 0, "", "", Zero64)

\* faulty variant: the error does not carry the server's index
ItemErrNoIndex(e) == Error("item", 0, e.Message, 0, "", "", Zero64)

\* the error of one record: fmt.Errorf("index %d: %s", Index, Message)
ItemErr(e) == Error("item", e.Index, e.Message, 0, "", "", Zero64)

\* faulty variant: the source of a lead is not looked at
FlawedNameOnly(leads) ==
    {i \in 1..Len(leads) : leads[i].Name = ""}

\* the positions of the leads BulkCreate rejects
Flawed(leads) ==
    {i \in 1..Len(leads) : leads[i].Name = "" \/ leads[i].Source = ""}

\* faulty variant: a list of any length is accepted
BulkCreateCheckNoLimit(leads) ==
    IF Len(leads) = 0
      THEN ValidationErr("leads is required", 0)
    ELSE IF Flawed(leads) # {}
      THEN LET i == CHOOSE i \in Flawed(leads) : \A j \in Flawed(leads) : i <= j
           IN  ValidationErr(IF leads[i].Name = "" THEN "name is required"
                             ELSE "source is required", i - 1)
    ELSE NilErr

\* BulkCreate's checks of its argument; nil when the list is accepted
BulkCreateCheck(leads) ==
    IF Len(leads) = 0
      THEN ValidationErr("leads is required", 0)
    ELSE IF Len(leads) > maxBatchSize
      THEN ValidationErr("maximum 100 leads allowed", 0)
    ELSE IF Flawed(leads) # {}
      THEN LET i == CHOOSE i \in Flawed(leads) : \A j \in Flawed(leads) : i <= j
           IN  ValidationErr(IF leads[i].Name = "" THEN "name is required"
                             ELSE "source is required", i - 1)
    ELSE NilErr

\* the leads of the request body BulkCreate builds
requestLeads(leads) == leads

\* an entry of BulkCreateResult.Created and of BulkCreateResult.Errors
Created(i) == [Index |-> i, ID |-> "id"]

Failed(i) == [Index |-> i, Message |-> "rejected"]

\* the results a server answers a batch of n leads with: entries for its
\* first, middle and last record, in either order, or none
ResultsFor(n) ==
    {Outcome(NilErr, c, e) :
        c \in {<<>>, <<Created(0)>>, <<Created(n - 1), Created(0)>>},
        e \in {<<>>, <<Failed(n \div 2)>>, <<Failed(0), Failed(n - 1)>>}}

\* the errors Client.do returns after an attempt: the transport's, or the
\* server's last answer
DoErrors(done) ==
    {TransportErr(0, IF done THEN "ctx" ELSE "net"),
     newAPIError(0, StatusInternalServerError, EmptyBody, <<>>)}

\* faulty variant: the errors outlet is left open
deferredClosesResultsOnly == <<"results">>

\* the deferred calls of the task, in the order they run
deferredCloses == <<"errs", "results">>

\* the task is at position at, with loop variable k, batch b and outcome o
Goto(at, k, b, o, c) ==
    /\ bpc' = at
    /\ idx' = k
    /\ batch' = b
    /\ outcome' = o
    /\ closed' = c
    /\ discarded' = IF at = "sendErr" THEN Append(discarded, b) ELSE discarded

\* flush returns to its caller, leaving b in the batch: the loop goes on,
\* or, after the flush of a closed stream, the task returns
FlushReturns(t, b) ==
    IF t = "close"
    THEN Goto("done", 0, b, NoOutcome, closed \o deferredCloses)
    ELSE Goto("select", 0, b, NoOutcome, closed)

\* where flush goes once k entries of Created, or of Errors, are sent
AfterErrors(o, k) ==
    IF k < Len(o.Errors) THEN [at |-> "sendItemErr", idx |-> k]
    ELSE [at |-> "end", idx |-> 0]

\* faulty variant: the per-record errors are left out
AfterCreatedOnly(o, k) ==
    IF k < Len(o.Created) THEN [at |-> "sendResult", idx |-> k]
    ELSE [at |-> "end", idx |-> 0]

AfterCreated(o, k) ==
    IF k < Len(o.Created) THEN [at |-> "sendResult", idx |-> k]
    ELSE AfterErrors(o, 0)

\* flush moves on to position p; at its end it empties the batch
Continue(t, b, o, p) ==
    IF p.at = "end" THEN FlushReturns(t, <<>>)
    ELSE Goto(p.at, p.idx, b, o, closed)

\* BulkCreate has returned o
Returned(t, b, o) ==
    IF t = "direct" THEN Goto("returned", 0, b, o, closed)
    ELSE IF o.err # NilErr THEN Goto("sendErr", 0, b, o, closed)
    ELSE Continue(t, b, o, AfterCreated(o, 0))

\* BulkCreate(ctx, b): the checks, then Client.do up to its first attempt
BulkCreate(t, b) ==
    IF BulkCreateCheck(b) # NilErr
      THEN Returned(t, b, Outcome(BulkCreateCheck(b), <<>>, <<>>))
           /\ UNCHANGED <<request, submissions>>
    ELSE IF ~rangeHasNext(0, maxRetries)
      THEN Returned(t, b, Outcome(loopResult(NilErr), <<>>, <<>>))
           /\ UNCHANGED <<request, submissions>>
    ELSE IF ctxErr(ctxDone, 0) # NilErr
      THEN Returned(t, b, Outcome(ctxErr(ctxDone, 0), <<>>, <<>>))
           /\ UNCHANGED <<request, submissions>>
    ELSE /\ Goto("call", 0, b, NoOutcome, closed)
         /\ request' = requestLeads(b)
         /\ submissions' = submissions + 1

\* whether flush has nothing to do
flushSkips(b) == Len(b) = 0

\* flush(), called by t with b in the batch
Flush(t, b) ==
    /\ trigger' = t
    /\ emitted' = NoEmitted
    /\ IF flushSkips(b)
       THEN FlushReturns(t, b) /\ UNCHANGED <<request, submissions, handed>>
       ELSE BulkCreate(t, b) /\ handed' = Append(handed, [by |-> t, leads |-> b])

\* the task's timer has run out: the producer pauses, or has sent its last
TimerExpired == received \in stream.gaps \/ received = stream.total

(***************************************************************************)
(* Client.List, Client.iterate, the task of Client.IteratorChan and the    *)
(* sequence of Client.Iterator.                                            *)
(***************************************************************************)
\* a server has up to MaxPages pages of up to MaxPageLen leads each
MaxPages == 2

MaxPageLen == 2

\* a run makes up to MaxRequests page requests
MaxRequests == 3

\* the servers of the model, each by the sizes of its pages and by the page
\* (0: none) that answers has_more without a next_cursor
Pagings ==
    UNION {{[sizes |-> s, mute |-> m] : m \in 0..(Len(s) - 1)} :
              s \in UNION {[1..n -> 0..MaxPageLen] : n \in 1..MaxPages}}

\* the servers whose pages all hand out a cursor with has_more
PlainPagings == {p \in Pagings : p.mute = 0}

\* the j-th lead of the k-th page
PageLead(k, j) == [id |-> <<k, j>>, Name |-> "name", Source |-> "source"]

\* the page the request with cursor cur asks for
PageAt(cur) == IF cur = NoCursor THEN 1 ELSE cur[2] + 1

\* the page a server answers a request with: the first page without a
\* cursor, else the page after the one that handed the cursor out
ServerPage(srv, cur) ==
    LET k == PageAt(cur)
    IN  IF k > Len(srv.sizes) THEN NoPage
        ELSE [Leads |-> [j \in 1..srv.sizes[k] |-> PageLead(k, j)],
              HasMore |-> k < Len(srv.sizes),
              NextCursor |-> IF k < Len(srv.sizes) /\ k # srv.mute
                             THEN CursorOf(k) ELSE NoCursor]

\* the list options: Limit(n), Cursor(c), Sort(field, order) and a filter
ListOption(opt, n, c, field, order) ==
    [opt |-> opt, n |-> n, c |-> c, field |-> field, order |-> order]

Limit(n) == ListOption("limit", n, NoCursor, "", "")

Cursor(c) == ListOption("cursor", 0, c, "", "")

Sort(field, order) == ListOption("sort", 0, NoCursor, field, order)

FilterOption(f) == ListOption("filter", 0, NoCursor, f, "")

\* the zero value of listConfig
listConfig ==
    [limit |-> 0, cursor |-> NoCursor, sortBy |-> "", sortOrder |-> "", filters |-> <<>>]

\* opt.apply(cfg)
apply(cfg, o) ==
    CASE o.opt = "limit" -> [cfg EXCEPT !.limit = o.n]
      [] o.opt = "cursor" -> [cfg EXCEPT !.cursor = o.c]
      [] o.opt = "sort" -> [cfg EXCEPT !.sortBy = o.field, !.sortOrder = o.order]
      [] o.opt = "filter" -> [cfg EXCEPT !.filters = Append(@, o.field)]

\* List's loop over its options
RECURSIVE applyAll(_, _)
applyAll(cfg, os) ==
    IF os = <<>> THEN cfg ELSE applyAll(apply(cfg, Head(os)), Tail(os))

\* the query parameters of List's request; a parameter List does not set
\* has the zero value
ListParams(os) ==
    LET cfg == applyAll(listConfig, os)
    IN  [limit |-> IF cfg.limit > 0 THEN cfg.limit ELSE 0,
         cursor |-> cfg.cursor,
         sort_by |-> cfg.sortBy,
         sort_order |-> IF cfg.sortBy # "" THEN cfg.sortOrder ELSE "",
         filter |-> cfg.filters]

\* faulty variant: the cursor is never passed on
listOptsNoCursor(os, cur) == os

\* iterate's listOpts: the caller's options, and the cursor unless empty
listOpts(os, cur) ==
    IF cur # NoCursor THEN Append(os, Cursor(cur)) ELSE os

\* the option lists of the callers
OptLists ==
    {<<>>,
     <<Sort("name", "DESC"), FilterOption("and.eq.city.x"), Limit(1)>>,
     <<Limit(MaxPageLen), Cursor(CursorOf(1))>>}

\* the deferred calls of IteratorChan's task, in the order they run
iterDeferredCloses == <<"errs", "leads">>

\* iterate is at position at, with page p, loop variable k and cursor cur;
\* at its end, IteratorChan's task returns
IterGoto(at, p, k, cur) ==
    /\ ipc' = at
    /\ page' = p
    /\ idx' = k
    /\ cursor' = cur
    /\ closed' = IF at = "done" /\ shape = "chan"
                 THEN closed \o iterDeferredCloses ELSE closed

\* List(ctx, listOpts...): Client.do up to its first attempt; sv are the
\* results List has returned so far
BeginList(cur, sv) ==
    /\ Len(fetched) < MaxRequests
    /\ IF ~rangeHasNext(0, maxRetries)
         THEN /\ IterGoto("done", NoPage, 0, cur)
              /\ served' = Append(sv, NoPage)
              /\ UNCHANGED <<fetched, outcome>>
       ELSE IF ctxErr(ctxDone, 0) # NilErr
         THEN /\ IterGoto("sendErr", NoPage, 0, cur)
              /\ outcome' = Outcome(ctxErr(ctxDone, 0), <<>>, <<>>)
              /\ served' = sv
              /\ UNCHANGED fetched
       ELSE /\ IterGoto("fetch", NoPage, 0, cur)
            /\ fetched' = Append(fetched, ListParams(listOpts(opts, cur)))
            /\ served' = sv
            /\ UNCHANGED outcome

\* iterate goes on after k leads of page p: the next lead, the next page,
\* or the end of the sequence
IterNext(p, k, sv) ==
    IF k < Len(p.Leads)
      THEN IterGoto("sendLead", p, k, cursor) /\ served' = sv /\ UNCHANGED <<fetched, outcome>>
    ELSE IF ~p.HasMore
      THEN IterGoto("done", p, 0, cursor) /\ served' = sv /\ UNCHANGED <<fetched, outcome>>
    ELSE BeginList(p.NextCursor, sv)

\* BulkCreateFromChan or IteratorChan is called, or BulkCreate is called
\* with a list
StreamInit ==
    /\ maxRetries \in {0, DefaultMaxRetries}
    /\ wantResult = TRUE
    /\ prep = "ok"
    /\ DoIdle
    /\ fn = "none"
    /\ arg = NoArg
    /\ called = FALSE
    /\ out = NoOut
    /\ \/ /\ stream \in Streams
          /\ bpc = "select"
          /\ batch = <<>>
          /\ IterIdle
       \/ /\ stream = NoStream
          /\ bpc = "caller"
          /\ batch \in DirectLists
          /\ IterIdle
       \/ /\ stream = NoStream
          /\ bpc = "idle"
          /\ batch = <<>>
          /\ pages \in PlainPagings
          /\ ipc = "start"
          /\ page = NoPage
          /\ cursor = NoCursor
          /\ fetched = <<>>
          /\ opts = <<>>
          /\ shape = "chan"
          /\ served = <<>>
          /\ stopped = FALSE
    /\ timerArmed = FALSE
    /\ received = 0
    /\ inClosed = FALSE
    /\ trigger = "none"
    /\ outcome = NoOutcome
    /\ idx = 0
    /\ errBuf = <<>>
    /\ emitted = NoEmitted
    /\ closed = <<>>
    /\ request = <<>>
    /\ submissions = 0
    /\ handed = <<>>
    /\ discarded = <<>>

\* a caller's own call of BulkCreate
DirectCall ==
    /\ bpc = "caller"
    /\ trigger' = "direct"
    /\ BulkCreate("direct", batch)
    /\ UNCHANGED <<stream, timerArmed, received, inClosed, errBuf, emitted, handed>>
    /\ UNCHANGED <<doVars, fnVars, iterVars>>

\* faulty variant: the case of ctx.Done() is never ready
doneReadyNever(done) == FALSE

\* whether a select's case <-ctx.Done() is ready
doneReady(done) == done

\* the loop's select: case <-ctx.Done()
SelectDone ==
    /\ bpc = "select"
    /\ doneReady(ctxDone)
    /\ Goto("done", 0, batch, NoOutcome, closed \o deferredCloses)
    /\ timerArmed' = FALSE
    /\ UNCHANGED <<stream, received, inClosed, trigger, errBuf, emitted, request,
                   submissions, handed>>
    /\ UNCHANGED <<doVars, fnVars, iterVars>>

\* the loop's select: case <-timer.C
SelectTimer ==
    /\ bpc = "select"
    /\ timerArmed
    /\ TimerExpired
    /\ timerArmed' = FALSE
    /\ Flush("timer", batch)
    /\ UNCHANGED <<stream, received, inClosed, errBuf>>
    /\ UNCHANGED <<doVars, fnVars, iterVars>>

\* faulty variant: no record is taken for the first of a batch
firstOfBatchNever(b) == Len(b) = 0

\* whether the appended record is the first of its batch
firstOfBatch(b) == Len(b) = 1

\* faulty variant: the batch is flushed one record late
batchFullLate(b) == Len(b) > maxBatchSize

\* whether the batch has reached the size that flushes it
batchFull(b) == Len(b) >= maxBatchSize

\* faulty variant: the lead is put in front of the batch
appendInFront(b, lead) == <<lead>> \o b

\* batch = append(batch, lead)
append(b, lead) == Append(b, lead)

\* the loop's select: case lead, ok := <-leads, with a lead
SelectLead ==
    /\ bpc = "select"
    /\ ~inClosed
    /\ received < stream.total
    /\ received' = received + 1
    /\ \E b \in {append(batch, Lead(stream, received + 1))} :
          IF batchFull(b)
          THEN /\ timerArmed' = FALSE
               /\ Flush("size", b)
          ELSE /\ timerArmed' = (firstOfBatch(b) \/ timerArmed)
               /\ Goto("select", 0, b, NoOutcome, closed)
               /\ UNCHANGED <<trigger, emitted, request, submissions, handed>>
    /\ UNCHANGED <<stream, inClosed, errBuf>>
    /\ UNCHANGED <<doVars, fnVars, iterVars>>

\* the loop's select: case lead, ok := <-leads, on the closed stream
SelectClosed ==
    /\ bpc = "select"
    /\ inClosed
    /\ timerArmed' = FALSE
    /\ Flush("close", batch)
    /\ UNCHANGED <<stream, received, inClosed, errBuf>>
    /\ UNCHANGED <<doVars, fnVars, iterVars>>

\* Client.do returns nil with the server's result decoded
CallSucceeds ==
    /\ bpc = "call"
    /\ ~ctxDone
    /\ \E o \in ResultsFor(Len(batch)) : Returned(trigger, batch, o)
    /\ UNCHANGED <<stream, timerArmed, received, inClosed, trigger, errBuf, emitted,
                   request, submissions, handed>>
    /\ UNCHANGED <<doVars, fnVars, iterVars>>

\* Client.do returns an error
CallFails ==
    /\ bpc = "call"
    /\ \E e \in DoErrors(ctxDone) : Returned(trigger, batch, Outcome(e, <<>>, <<>>))
    /\ UNCHANGED <<stream, timerArmed, received, inClosed, trigger, errBuf, emitted,
                   request, submissions, handed>>
    /\ UNCHANGED <<doVars, fnVars, iterVars>>

\* faulty variant: the failed batch is kept
failedBatchKept(b) == b

\* what flush leaves of a batch whose call failed: batch = batch[:0]
failedBatchRest(b) == SubSeq(b, 1, 0)

\* flush's first select: case errs <- err
SendErr ==
    /\ bpc = "sendErr"
    /\ Len(errBuf) < errsCap
    /\ errBuf' = Append(errBuf, outcome.err)
    /\ emitted' = [emitted EXCEPT !.errs = Append(@, outcome.err)]
    /\ FlushReturns(trigger, failedBatchRest(batch))
    /\ UNCHANGED <<stream, timerArmed, received, inClosed, trigger, request, submissions, handed>>
    /\ UNCHANGED <<doVars, fnVars, iterVars>>

\* flush's first select: case <-ctx.Done()
SendErrCancelled ==
    /\ bpc = "sendErr"
    /\ doneReady(ctxDone)
    /\ FlushReturns(trigger, failedBatchRest(batch))
    /\ UNCHANGED <<stream, timerArmed, received, inClosed, trigger, errBuf, emitted,
                   request, submissions, handed>>
    /\ UNCHANGED <<doVars, fnVars, iterVars>>

\* flush's second select: case results <- &result.Created[i], taken by the
\* consumer
SendResult ==
    /\ bpc = "sendResult"
    /\ emitted' = [emitted EXCEPT !.results = Append(@, outcome.Created[idx + 1])]
    /\ Continue(trigger, batch, outcome, AfterCreated(outcome, idx + 1))
    /\ UNCHANGED <<stream, timerArmed, received, inClosed, trigger, errBuf, request,
                   submissions, handed>>
    /\ UNCHANGED <<doVars, fnVars, iterVars>>

\* flush's second select: case <-ctx.Done()
SendResultCancelled ==
    /\ bpc = "sendResult"
    /\ doneReady(ctxDone)
    /\ FlushReturns(trigger, batch)
    /\ UNCHANGED <<stream, timerArmed, received, inClosed, trigger, errBuf, emitted,
                   request, submissions, handed>>
    /\ UNCHANGED <<doVars, fnVars, iterVars>>

\* flush's third select: case errs <- fmt.Errorf(...)
SendItemErr ==
    /\ bpc = "sendItemErr"
    /\ Len(errBuf) < errsCap
    /\ errBuf' = Append(errBuf, ItemErr(outcome.Errors[idx + 1]))
    /\ emitted' = [emitted EXCEPT !.errs = Append(@, ItemErr(outcome.Errors[idx + 1]))]
    /\ Continue(trigger, batch, outcome, AfterErrors(outcome, idx + 1))
    /\ UNCHANGED <<stream, timerArmed, received, inClosed, trigger, request, submissions, handed>>
    /\ UNCHANGED <<doVars, fnVars, iterVars>>

\* flush's third select: case <-ctx.Done()
SendItemErrCancelled ==
    /\ bpc = "sendItemErr"
    /\ doneReady(ctxDone)
    /\ FlushReturns(trigger, batch)
    /\ UNCHANGED <<stream, timerArmed, received, inClosed, trigger, errBuf, emitted,
                   request, submissions, handed>>
    /\ UNCHANGED <<doVars, fnVars, iterVars>>

\* the consumer takes an error from the errors outlet
RecvErr ==
    /\ errBuf # <<>>
    /\ errBuf' = Tail(errBuf)
    /\ UNCHANGED <<stream, bpc, batch, timerArmed, received, inClosed, trigger, outcome,
                   idx, emitted, closed, request, submissions, handed, discarded>>
    /\ UNCHANGED <<doVars, fnVars, iterVars>>

\* the producer closes the input stream after its last record
CloseInput ==
    /\ bpc \notin {"idle", "caller", "returned"}
    /\ stream.closes
    /\ received = stream.total
    /\ ~inClosed
    /\ inClosed' = TRUE
    /\ UNCHANGED <<stream, bpc, batch, timerArmed, received, trigger, outcome, idx,
                   errBuf, emitted, closed, request, submissions, handed, discarded>>
    /\ UNCHANGED <<doVars, fnVars, iterVars>>

\* the caller cancels ctx, at any moment before the task or the call ends
CancelBatch ==
    /\ bpc \notin {"idle", "done", "returned"} \/ ipc \notin {"idle", "done"}
    /\ ~ctxDone
    /\ ctxDone' = TRUE
    /\ UNCHANGED <<maxRetries, wantResult, prep, pc, attempt, lastErr, delay, ret,
                   decoded, jitter, attempts, waits, history, resp, cancelledAt>>
    /\ UNCHANGED <<fnVars, streamVars>>

\* the task of IteratorChan starts, or the consumer starts ranging over the
\* sequence of Iterator: iterate asks for the first page
IterStart ==
    /\ ipc = "start"
    /\ BeginList(NoCursor, served)
    /\ UNCHANGED <<pages, opts, shape, stopped, errBuf, emitted>>
    /\ UNCHANGED <<stream, bpc, batch, timerArmed, received, inClosed, trigger,
                   request, submissions, handed, discarded>>
    /\ UNCHANGED <<doVars, fnVars>>

\* Client.do returns nil with the server's page decoded
ListSucceeds ==
    /\ ipc = "fetch"
    /\ ~ctxDone
    /\ \E p \in {ServerPage(pages, fetched[Len(fetched)].cursor)} :
          IterNext(p, 0, Append(served, p))
    /\ UNCHANGED <<pages, opts, shape, stopped, errBuf, emitted>>
    /\ UNCHANGED <<stream, bpc, batch, timerArmed, received, inClosed, trigger,
                   request, submissions, handed, discarded>>
    /\ UNCHANGED <<doVars, fnVars>>

\* Client.do returns an error: iterate yields it
ListFails ==
    /\ ipc = "fetch"
    /\ \E e \in DoErrors(ctxDone) :
          /\ IterGoto("sendErr", NoPage, 0, cursor)
          /\ outcome' = Outcome(e, <<>>, <<>>)
    /\ UNCHANGED <<pages, fetched, opts, shape, served, stopped, errBuf, emitted>>
    /\ UNCHANGED <<stream, bpc, batch, timerArmed, received, inClosed, trigger,
                   request, submissions, handed, discarded>>
    /\ UNCHANGED <<doVars, fnVars>>

\* the task's second select: case leads <- lead, taken by the consumer
IterSendLead ==
    /\ ipc = "sendLead"
    /\ shape = "chan"
    /\ emitted' = [emitted EXCEPT !.results = Append(@, page.Leads[idx + 1])]
    /\ IterNext(page, idx + 1, served)
    /\ UNCHANGED <<pages, opts, shape, stopped, errBuf>>
    /\ UNCHANGED <<stream, bpc, batch, timerArmed, received, inClosed, trigger,
                   request, submissions, handed, discarded>>
    /\ UNCHANGED <<doVars, fnVars>>

\* the task's second select: case <-ctx.Done()
IterSendLeadCancelled ==
    /\ ipc = "sendLead"
    /\ shape = "chan"
    /\ doneReady(ctxDone)
    /\ IterGoto("done", page, idx, cursor)
    /\ UNCHANGED <<pages, fetched, opts, shape, served, stopped, outcome, errBuf, emitted>>
    /\ UNCHANGED <<stream, bpc, batch, timerArmed, received, inClosed, trigger,
                   request, submissions, handed, discarded>>
    /\ UNCHANGED <<doVars, fnVars>>

\* the task's first select: case errs <- err
IterSendErr ==
    /\ ipc = "sendErr"
    /\ shape = "chan"
    /\ Len(errBuf) < errsCap
    /\ errBuf' = Append(errBuf, outcome.err)
    /\ emitted' = [emitted EXCEPT !.errs = Append(@, outcome.err)]
    /\ IterGoto("done", page, idx, cursor)
    /\ UNCHANGED <<pages, fetched, opts, shape, served, stopped, outcome>>
    /\ UNCHANGED <<stream, bpc, batch, timerArmed, received, inClosed, trigger,
                   request, submissions, handed, discarded>>
    /\ UNCHANGED <<doVars, fnVars>>

\* the task's first select: case <-ctx.Done()
IterSendErrCancelled ==
    /\ ipc = "sendErr"
    /\ shape = "chan"
    /\ doneReady(ctxDone)
    /\ IterGoto("done", page, idx, cursor)
    /\ UNCHANGED <<pages, fetched, opts, shape, served, stopped, outcome, errBuf, emitted>>
    /\ UNCHANGED <<stream, bpc, batch, timerArmed, received, inClosed, trigger,
                   request, submissions, handed, discarded>>
    /\ UNCHANGED <<doVars, fnVars>>

\* faulty variant: iterate goes on whatever yield returns
yieldResultIgnored(goesOn) == TRUE

\* what iterate's yield returns in the sequence of Iterator: false when the
\* consumer's yield returned false
yieldResult(goesOn) == goesOn

\* Iterator's loop body with a lead: the consumer's yield takes it and
\* returns goesOn
PullLead ==
    /\ ipc = "sendLead"
    /\ shape = "pull"
    /\ emitted' = [emitted EXCEPT !.results = Append(@, page.Leads[idx + 1])]
    /\ \E goesOn \in BOOLEAN :
          /\ stopped' = ~goesOn
          /\ IF yieldResult(goesOn)
             THEN IterNext(page, idx + 1, served)
             ELSE /\ IterGoto("done", page, idx, cursor)
                  /\ UNCHANGED <<fetched, served, outcome>>
    /\ UNCHANGED <<pages, opts, shape, errBuf>>
    /\ UNCHANGED <<stream, bpc, batch, timerArmed, received, inClosed, trigger,
                   request, submissions, handed, discarded>>
    /\ UNCHANGED <<doVars, fnVars>>

\* faulty variant: iterate asks for the first page again after an error
afterErrAgain == "start"

\* where iterate is after yield(nil, err), whatever yield returned
afterErr == "done"

\* Iterator's loop body with an error: the consumer's yield takes it, and
\* Iterator and iterate return
PullErr ==
    /\ ipc = "sendErr"
    /\ shape = "pull"
    /\ emitted' = [emitted EXCEPT !.errs = Append(@, outcome.err)]
    /\ \E goesOn \in BOOLEAN : stopped' = ~goesOn
    /\ IterGoto(afterErr, page, idx, cursor)
    /\ UNCHANGED <<pages, fetched, opts, shape, served, outcome, errBuf>>
    /\ UNCHANGED <<stream, bpc, batch, timerArmed, received, inClosed, trigger,
                   request, submissions, handed, discarded>>
    /\ UNCHANGED <<doVars, fnVars>>

StreamNext ==
    \/ DirectCall
    \/ SelectDone
    \/ SelectTimer
    \/ SelectLead
    \/ SelectClosed
    \/ CallSucceeds
    \/ CallFails
    \/ SendErr
    \/ SendErrCancelled
    \/ SendResult
    \/ SendResultCancelled
    \/ SendItemErr
    \/ SendItemErrCancelled
    \/ RecvErr
    \/ CloseInput
    \/ CancelBatch
    \/ IterStart
    \/ ListSucceeds
    \/ ListFails
    \/ IterSendLead
    \/ IterSendLeadCancelled
    \/ IterSendErr
    \/ IterSendErrCancelled

SpecStream == StreamInit /\ [][StreamNext]_vars

\* the task runs whenever it can: a ready case of a select that waits for
\* nobody else is eventually run, the timer's channel delivers once the
\* timeout has passed, and Client.do returns
LiveStream ==
    /\ SpecStream
    /\ WF_vars(SelectDone)
    /\ WF_vars(SelectTimer)
    /\ WF_vars(SelectClosed)
    /\ WF_vars(CallSucceeds \/ CallFails)
    /\ WF_vars(SendErr)
    /\ WF_vars(SendErrCancelled)
    /\ WF_vars(SendResultCancelled)
    /\ WF_vars(SendItemErr)
    /\ WF_vars(SendItemErrCancelled)
    /\ WF_vars(IterStart)
    /\ WF_vars(ListSucceeds \/ ListFails)
    /\ WF_vars(IterSendLeadCancelled)
    /\ WF_vars(IterSendErr)
    /\ WF_vars(IterSendErrCancelled)

\* BulkCreateFromChan is called on a stream that its producer closes after
\* the last record
DrainInit ==
    /\ StreamInit
    /\ bpc = "select"
    /\ stream.closes

\* a consumer that ranges over the results outlet first: it takes an error
\* from the errors outlet only once the results outlet is closed
DrainErr ==
    /\ \E i \in DOMAIN closed : closed[i] = "results"
    /\ RecvErr

\* the run of the batcher with that consumer and a ctx that is never
\* cancelled
DrainNext ==
    \/ SelectTimer
    \/ SelectLead
    \/ SelectClosed
    \/ CallSucceeds
    \/ CallFails
    \/ SendErr
    \/ SendResult
    \/ SendItemErr
    \/ DrainErr
    \/ CloseInput

\* the task runs whenever it can, as in LiveStream; the producer sends its
\* records and closes the stream, and the consumer takes every result
\* offered and, after the close of the results outlet, every error
LiveDrain ==
    /\ DrainInit
    /\ [][DrainNext]_vars
    /\ WF_vars(SelectTimer)
    /\ WF_vars(SelectLead)
    /\ WF_vars(SelectClosed)
    /\ WF_vars(CallSucceeds \/ CallFails)
    /\ WF_vars(SendErr)
    /\ WF_vars(SendResult)
    /\ WF_vars(SendItemErr)
    /\ WF_vars(DrainErr)
    /\ WF_vars(CloseInput)

\* IteratorChan is called, or the sequence of Iterator is ranged over, with
\* any of the callers' option lists against any of the servers
PagedInit ==
    /\ maxRetries \in {0, DefaultMaxRetries}
    /\ wantResult = TRUE
    /\ prep = "ok"
    /\ DoIdle
    /\ fn = "none"
    /\ arg = NoArg
    /\ called = FALSE
    /\ out = NoOut
    /\ BatchIdle
    /\ pages \in Pagings
    /\ opts \in OptLists
    /\ shape \in {"chan", "pull"}
    /\ ipc = "start"
    /\ page = NoPage
    /\ cursor = NoCursor
    /\ fetched = <<>>
    /\ served = <<>>
    /\ stopped = FALSE

PagedNext ==
    \/ IterStart
    \/ ListSucceeds
    \/ ListFails
    \/ IterSendLead
    \/ IterSendLeadCancelled
    \/ IterSendErr
    \/ IterSendErrCancelled
    \/ PullLead
    \/ PullErr
    \/ RecvErr
    \/ CancelBatch

SpecPaged == PagedInit /\ [][PagedNext]_vars

(***************************************************************************)
(* The calls that check their arguments before they call Client.do.        *)
(***************************************************************************)
\* a nil *Lead
NilLead == [id |-> 0, Name |-> "", Source |-> ""]

IsNil(lead) == lead.id = 0

\* the arguments of a call: the id, the note's content, whether input is
\* not nil, the lead, the list of leads
CallArg(id, content, input, lead, leads) ==
    [id |-> id, content |-> content, input |-> input, lead |-> lead, leads |-> leads]

IdOps == {"Get", "Update", "Delete", "CreateNote", "ListNotes", "UpdateNote", "DeleteNote"}

NoteOps == {"CreateNote", "UpdateNote"}

Ops == IdOps \cup {"Create", "BulkCreate"}

\* a lead with every field, one with no name, one with no source
FullLead == Lead(NoStream, 1)

Nameless == [FullLead EXCEPT !.Name = ""]

Sourceless == [FullLead EXCEPT !.Source = ""]

\* the lists BulkCreate is called with: the direct lists, and lists with a
\* nil lead
BulkLists ==
    DirectLists \cup {<<FullLead, NilLead>>, <<Sourceless, NilLead>>}

\* the arguments each call is made with
CallArgs(f) ==
    CASE f \in {"Get", "Delete", "ListNotes", "DeleteNote"} ->
            {CallArg(i, "", FALSE, NilLead, <<>>) : i \in {"", "id"}}
      [] f = "Update" ->
            {CallArg(i, "", n, NilLead, <<>>) : i \in {"", "id"}, n \in BOOLEAN}
      [] f \in NoteOps ->
            {CallArg(i, c, FALSE, NilLead, <<>>) : i \in {"", "id"}, c \in {"", "text"}}
      [] f = "Create" ->
            {CallArg("", "", FALSE, l, <<>>) : l \in {NilLead, FullLead, Nameless, Sourceless}}
      [] f = "BulkCreate" ->
            {CallArg("", "", FALSE, NilLead, ls) : ls \in BulkLists}

\* faulty variant: an empty string passes
missingNever(s) == FALSE

\* `s == ""`
missing(s) == s = ""

Required(what) == ValidationErr(what, 0)

\* the checks of a call's arguments; nil when the call goes on to Client.do
Validate(f, a) ==
    CASE f \in {"Get", "Delete"} ->
            IF missing(a.id) THEN Required("id is required") ELSE NilErr
      [] f = "Update" ->
            IF missing(a.id) THEN Required("id is required")
            ELSE IF ~a.input THEN Required("input is required")
            ELSE NilErr
      [] f = "Create" ->
            IF IsNil(a.lead) THEN Required("lead is required")
            ELSE IF missing(a.lead.Name) THEN Required("name is required")
            ELSE IF missing(a.lead.Source) THEN Required("source is required")
            ELSE NilErr
      [] f = "CreateNote" ->
            IF missing(a.id) THEN Required("leadID is required")
            ELSE IF missing(a.content) THEN Required("content is required")
            ELSE NilErr
      [] f = "ListNotes" ->
            IF missing(a.id) THEN Required("leadID is required") ELSE NilErr
      [] f = "UpdateNote" ->
            IF missing(a.id) THEN Required("noteID is required")
            ELSE IF missing(a.content) THEN Required("content is required")
            ELSE NilErr
      [] f = "DeleteNote" ->
            IF missing(a.id) THEN Required("noteID is required") ELSE NilErr
      [] f = "BulkCreate" -> BulkCreateCheck(a.leads)

\* BulkCreate's loop reads lead.Name of a nil lead before it has returned:
\* the call panics
Panics(f, a) ==
    /\ f = "BulkCreate"
    /\ Len(a.leads) \in 1..maxBatchSize
    /\ \E i \in 1..Len(a.leads) :
          /\ IsNil(a.leads[i])
          /\ \A j \in 1..(i - 1) : j \notin Flawed(a.leads)

\* whether the call passes a result to Client.do
CallWantsResult(f) == f \notin {"Delete", "DeleteNote"}

\* one call of one of the operations
CallInit ==
    /\ maxRetries = DefaultMaxRetries
    /\ fn \in Ops
    /\ arg \in CallArgs(fn)
    /\ wantResult = CallWantsResult(fn)
    /\ prep = "ok"
    /\ DoIdle
    /\ called = FALSE
    /\ out = NoOut
    /\ BatchIdle
    /\ IterIdle

\* the call up to the first attempt of Client.do
ValidatedCall ==
    /\ pc = "start"
    /\ fn \in Ops
    /\ IF Panics(fn, arg)
         THEN /\ pc' = "panicked"
              /\ UNCHANGED <<maxRetries, wantResult, prep, attempt, ctxDone, lastErr,
                             delay, ret, decoded, jitter, attempts, waits, history,
                             resp, cancelledAt>>
              /\ UNCHANGED <<fnVars, streamVars>>
       ELSE IF Validate(fn, arg) # NilErr
         THEN /\ Return(Validate(fn, arg), FALSE)
              /\ UNCHANGED <<maxRetries, wantResult, prep, attempt, ctxDone, lastErr,
                             delay, jitter, attempts, waits, history, resp, cancelledAt>>
              /\ UNCHANGED <<fnVars, streamVars>>
       ELSE DoStart

CallNext ==
    \/ ValidatedCall
    \/ DoTransportFail
    \/ DoReadFail
    \/ DoResponse
    \/ BackoffTimer
    \/ BackoffCancelled
    \/ Cancel

SpecCall == CallInit /\ [][CallNext]_vars

(***************************************************************************)
(* Properties.                                                             *)
(***************************************************************************)
\* the largest number of attempts a retry bound allows
AttemptBound(n) == IF n > 0 THEN n ELSE 0

\* C1, as stated: a logical operation issues at most maxRetries network
\* attempts, for every configured retry bound.  A negative bound refutes it:
\* the operation has then made 0 attempts, which is more than the bound.
C1_AtMostMaxRetriesAttempts ==
    pc = "done" => attempts <= maxRetries

\* C1, amended: a logical operation issues at most maxRetries network
\* attempts when the bound is positive, and none when it is zero or negative.
C1_AttemptsBounded ==
    attempts <= AttemptBound(maxRetries)

C1_Witness ==
    /\ pc = "done"
    /\ maxRetries = DefaultMaxRetries
    /\ attempts = DefaultMaxRetries

\* the latest attempt received, in full, a response whose status is outside
\* 2xx and outside the transient set
FatalResponse ==
    /\ resp.kind = "response"
    /\ ~(resp.status >= 200 /\ resp.status < 300)
    /\ resp.status \notin TransientStatuses

\* do returned the structured API error of the latest attempt's status
ReturnedAPIError ==
    /\ pc = "done"
    /\ ret.kind = "api"
    /\ ret.at = attempts - 1
    /\ ret.StatusCode = resp.status

\* C2, as stated: when an attempt receives a response whose status is outside
\* 2xx and outside the transient set, the operation makes exactly one network
\* attempt, performs no backoff wait and returns the structured API error for
\* that status.
C2_FatalStatusOneAttempt ==
    FatalResponse => ReturnedAPIError /\ attempts = 1 /\ waits = 0

\* C2, amended: such a response ends the operation at the attempt that
\* received it, with no backoff wait after it, and the structured API error
\* for that status is returned; when the first attempt receives it, the
\* operation has made exactly one attempt and no wait.
C2_FatalStatusEndsOperation ==
    FatalResponse =>
        /\ ReturnedAPIError
        /\ waits = attempts - 1
        /\ Len(history) = 1 => attempts = 1 /\ waits = 0

C2_Witness ==
    /\ FatalResponse
    /\ ReturnedAPIError
    /\ resp.status = 404
    /\ attempts = 1
    /\ waits = 0

AllTransient(h) == \A i \in 1..Len(h) : h[i] = "transient"

\* the server answered k transient-status responses and nothing else so far
TransientOnly(k) ==
    /\ Len(history) = k
    /\ AllTransient(history)
    /\ prep = "ok"
    /\ cancelledAt = "no"

\* the server answered k transient-status responses and then a 2xx response
\* whose body, if it is to be decoded, decodes
TransientThenSuccess(k) ==
    /\ Len(history) = k + 1
    /\ AllTransient(SubSeq(history, 1, k))
    /\ history[k + 1] = "success"
    /\ resp.kind = "response"
    /\ resp.body.kind # "malformed"

SuccessAfter(k) ==
    /\ pc = "done"
    /\ ret = NilErr
    /\ decoded = (wantResult /\ resp.body.kind = "json")
    /\ attempts = k + 1
    /\ waits = k

\* C3, as stated: for every k in 1..maxRetries, k consecutive transient-status
\* responses followed by a 2xx response end in success with the decoded body
\* after exactly k backoff waits.  So after k <= maxRetries transient
\* responses the operation has not returned (it goes on to the attempt the
\* 2xx response answers), and the 2xx response ends it in success.
C3_RetriesUpToMaxRetries ==
    \A k \in 1..maxRetries :
        /\ TransientOnly(k) => pc # "done"
        /\ TransientThenSuccess(k) => SuccessAfter(k)

\* C3, amended: the same for every k < maxRetries (k + 1 <= maxRetries
\* attempts in all).
C3_RetriesBelowMaxRetries ==
    \A k \in 0..(maxRetries - 1) :
        /\ TransientOnly(k) => pc # "done"
        /\ TransientThenSuccess(k) => SuccessAfter(k)

C3_Witness ==
    /\ TransientThenSuccess(2)
    /\ SuccessAfter(2)
    /\ decoded

\* every attempt failed with a retriable outcome
AllRetriable(h) == \A i \in 1..Len(h) : h[i] \in {"transport", "transient"}

\* C4: when every attempt of an operation failed with a retriable outcome
\* and no cancellation occurred, do returns the error of the last attempt:
\* the transport error or the structured API error that attempt produced.
C4_ReturnsLastError ==
    (/\ pc = "done"
     /\ attempts >= 1
     /\ cancelledAt = "no"
     /\ AllRetriable(history))
    => /\ Len(history) = attempts
       /\ ret.at = attempts - 1
       /\ history[attempts] = "transport" => ret.kind = "transport"
       /\ history[attempts] = "transient" =>
             ret.kind = "api" /\ ret.StatusCode \in TransientStatuses

C4_Witness ==
    /\ pc = "done"
    /\ cancelledAt = "no"
    /\ history = <<"transient", "transport", "transient">>
    /\ ret.kind = "api"
    /\ ret.at = 2

\* C5: once ctx is cancelled, do starts no further network attempt.
C5_NoAttemptAfterCancel ==
    [][ctxDone => attempts' = attempts]_vars

C5_Witness ==
    /\ pc = "done"
    /\ cancelledAt = "backoff"
    /\ ret.kind = "ctx"
    /\ attempts >= 1
    /\ attempts < maxRetries

\* C6: when ctx is cancelled while do is in progress, the error do returns
\* is the cancellation error (ctx's error, or an error that wraps it).
C6_CancellationTakesPrecedence ==
    (/\ pc = "done"
     /\ cancelledAt \in {"inflight", "backoff"}
     /\ ret # NilErr)
    => ret.cause = "ctx"

\* a header value that is a decimal integer: an optional sign and digits
IsNumeric(s) ==
    LET digits == IF s # <<>> /\ s[1] \in {"+", "-"} THEN Tail(s) ELSE s
    IN  digits # <<>> /\ \A i \in 1..Len(digits) : IsDigit(digits[i])

\* the integer a numeric header value denotes
NumericValue(s) ==
    IF s[1] = "-" THEN Neg(DecimalValue(Tail(s)))
    ELSE IF s[1] = "+" THEN DecimalValue(Tail(s))
    ELSE DecimalValue(s)

\* the latest response is a 429 with a numeric positive Retry-After hint
HasHint ==
    /\ resp.status = 429
    /\ IsNumeric(resp.hdr)
    /\ Less(Wide(0), NumericValue(resp.hdr))

\* the timer waits for base plus the drawn jitter, which is in [0, 500 ms)
WaitsFor(base) ==
    /\ Widen(delay) = Add(base, Wide(jitter))
    /\ 0 <= jitter
    /\ jitter < 500000000

\* h seconds, in nanoseconds
HintDelay == Mul(NumericValue(resp.hdr), Wide(1000000000))

\* 1 s * 2^a, in nanoseconds
ExponentialDelay(a) == Shl(Wide(1000000000), a)

\* a wide integer is a 64-bit duration
Fits64(x) == LessEq(Widen(MinInt64), x) /\ LessEq(x, Widen(MaxInt64))

\* C7, as stated: after a 429 response with a numeric positive Retry-After
\* hint of h seconds the wait lasts h s plus jitter, in [h s, h s + maxJitter);
\* with a missing, non-numeric or non-positive hint, and with any hint on
\* another status, it lasts the exponential delay plus jitter.
C7_HintReplacesExponentialDelay ==
    (pc = "backoff" /\ resp.kind = "response") =>
        IF HasHint THEN WaitsFor(HintDelay) ELSE WaitsFor(ExponentialDelay(attempt))

\* C7, amended: the same for hints h <= 9223372036, the hints for which
\* h s + maxJitter is a 64-bit nanosecond duration.
C7_RepresentableHintReplacesExponentialDelay ==
    (pc = "backoff" /\ resp.kind = "response") =>
        /\ (HasHint /\ Fits64(Add(HintDelay, Wide(500000000)))) => WaitsFor(HintDelay)
        /\ ~HasHint => WaitsFor(ExponentialDelay(attempt))

C7_Witness ==
    /\ pc = "backoff"
    /\ resp.kind = "response"
    /\ resp.status = 429
    /\ resp.hdr = <<"2">>
    /\ attempt = 1
    /\ jitter = maxJitter - 1
    /\ delay = Add(Mul(I64(2), I64(Second)), I64(maxJitter - 1))

\* backoff was applied to an attempt index with no hint
BackoffNoHint ==
    /\ fn = "backoff"
    /\ called
    /\ arg.retryAfter = Zero64

\* the computed duration lies in [1 s * 2^a, 1 s * 2^a + 500 ms)
InExponentialWindow ==
    /\ LessEq(ExponentialDelay(arg.attempt), Widen(out.d))
    /\ Less(Widen(out.d), Add(ExponentialDelay(arg.attempt), Wide(500000000)))

C9_RetryClassifier ==
    (fn = "shouldRetry" /\ called) =>
        (out.b <=> (arg.err \/ arg.statusCode \in {429, 500, 502, 503, 504}))

C9_Witness ==
    /\ fn = "shouldRetry"
    /\ called
    /\ ~arg.err
    /\ arg.statusCode = 404
    /\ ~out.b

\* the category of each status
CategoryOf ==
    {<<404, "ErrNotFound">>, <<401, "ErrUnauthorized">>, <<403, "ErrForbidden">>,
     <<429, "ErrRateLimited">>, <<500, "ErrInternal">>}

Batching == bpc \notin {"idle", "caller", "returned"} /\ trigger # "direct"

\* C11: in every reachable state of BulkCreateFromChan the pending batch
\* holds at most maxBatchSize records.  A flush that cancellation interrupts
\* while it emits leaves its 100 records in the batch, and the loop's select
\* may then still take a record: the batch holds 101.
C11_BatchWithinMax ==
    Batching => Len(batch) <= maxBatchSize


\* C12: every bulk-create request that BulkCreate or BulkCreateFromChan puts
\* on the network carries the whole list it was called with, between 1 and
\* maxBatchSize records; an empty list and a list of more than maxBatchSize
\* records never produce a request.
C12_RequestsCarryOneToMax ==
    /\ bpc = "call" => request = batch
    /\ submissions > 0 => Len(request) >= 1 /\ Len(request) <= maxBatchSize
    /\ submissions = 0 => request = <<>>
    /\ bpc \in {"call", "sendErr", "sendResult", "sendItemErr", "returned"}
          /\ (Len(batch) = 0 \/ Len(batch) > maxBatchSize)
          => bpc # "call" /\ outcome.err.kind = "validation"

\* a request with a full batch is on the network
C12_Witness ==
    /\ bpc = "call"
    /\ trigger = "size"
    /\ Len(request) = maxBatchSize


\* the producer sends exactly maxBatchSize records and never pauses for as
\* long as the flush timeout
FullBurst == Batching /\ stream.total = maxBatchSize /\ stream.gaps = {}

\* the first n records of the stream, in arrival order
Arrived(n) == [i \in 1..n |-> Lead(stream, i)]

\* C13: when exactly maxBatchSize records arrive with no gap long enough for
\* the timer to fire, nothing is submitted before the last of them; that
\* record makes flush submit one batch of all maxBatchSize records, called by
\* the size threshold with the timer disarmed, the timer calls no flush for
\* these records, and as long as ctx is not cancelled no other batch is
\* submitted.
C13_FullBatchFlushedBySize ==
    FullBurst =>
        /\ received < maxBatchSize => handed = <<>> /\ bpc \in {"select", "done"}
        /\ received = maxBatchSize =>
              /\ Len(handed) >= 1
              /\ handed[1] = [by |-> "size", leads |-> Arrived(maxBatchSize)]
              /\ ~timerArmed
              /\ \A i \in DOMAIN handed : handed[i].by # "timer"
              /\ submissions <= 1
              /\ ~ctxDone => Len(handed) = 1

\* the batch of maxBatchSize records is with BulkCreate, called by the size
\* threshold
C13_Witness ==
    /\ FullBurst
    /\ received = maxBatchSize
    /\ bpc = "call"
    /\ trigger = "size"
    /\ ~timerArmed
    /\ Len(handed) = 1
    /\ request = Arrived(maxBatchSize)


\* the task waits with a partial batch: the producer has sent its last
\* record and keeps the stream open, and ctx is not cancelled
WaitingPartial ==
    /\ Batching
    /\ bpc = "select"
    /\ Len(batch) > 0
    /\ Len(batch) < maxBatchSize
    /\ received = stream.total
    /\ ~inClosed
    /\ ~ctxDone

\* C14: when the pending batch is non-empty with fewer than maxBatchSize
\* records, no further record arrives and ctx is not cancelled, the wait
\* ends, and unless the stream is closed or ctx cancelled first it ends by
\* the timer firing and flush submitting exactly the pending records as one
\* batch.
C14_TimerFlushesPartialBatch ==
    /\ WaitingPartial ~> ~WaitingPartial
    /\ [][WaitingPartial /\ ~WaitingPartial' /\ ~inClosed' /\ ~ctxDone'
             => /\ ~timerArmed'
                /\ handed' = Append(handed, [by |-> "timer", leads |-> batch])]_vars

\* a single record, then nothing: the timer has flushed a batch of size 1
C14_Witness ==
    /\ Batching
    /\ stream.total = 1
    /\ ~inClosed
    /\ ~ctxDone
    /\ handed = <<[by |-> "timer", leads |-> Arrived(1)]>>


\* the stream is closed while the task waits with a partial batch, and ctx
\* is not cancelled
ClosedPartial ==
    /\ Batching
    /\ bpc = "select"
    /\ inClosed
    /\ Len(batch) > 0
    /\ Len(batch) < maxBatchSize
    /\ ~ctxDone

\* everything BulkCreate returned as o has been sent, as e records it
EmittedAll(o, e) ==
    IF o.err # NilErr
    THEN e = [results |-> <<>>, errs |-> <<o.err>>]
    ELSE /\ e.results = o.Created
         /\ e.errs = [i \in DOMAIN o.Errors |-> ItemErr(o.Errors[i])]

\* C15: when the input stream is closed while n records, 1 <= n < 100, are
\* pending and ctx is not cancelled, the task submits exactly those n
\* records as one batch, and it closes the outlets, both in one go, only when
\* the batch is empty, the last record received has been submitted and
\* every outcome of the flush has been sent.
C15_FinalBatchThenClose ==
    /\ ClosedPartial ~> ~ClosedPartial
    /\ [][ClosedPartial /\ ~ClosedPartial' /\ ~ctxDone'
             => \E t \in {"close", "timer"} :
                   handed' = Append(handed, [by |-> t, leads |-> batch])]_vars
    /\ [][Batching /\ closed' # closed /\ ~ctxDone
             => /\ closed = <<>>
                /\ closed' = <<"errs", "results">>
                /\ bpc' = "done"
                /\ batch' = <<>>
                /\ received > 0 =>
                      /\ handed' # <<>>
                      /\ handed'[Len(handed')].leads[Len(handed'[Len(handed')].leads)]
                            = Lead(stream, received)
                /\ bpc # "select" => EmittedAll(outcome, emitted')]_vars

\* the final batch of two records was submitted on the close, its outcomes
\* were sent, and both outlets are closed
C15_Witness ==
    /\ Batching
    /\ bpc = "done"
    /\ ~ctxDone
    /\ inClosed
    /\ handed = <<[by |-> "close", leads |-> Arrived(2)]>>
    /\ emitted.results # <<>>
    /\ emitted.errs # <<>>
    /\ closed = <<"errs", "results">>


\* C16: once ctx is cancelled the batcher puts no further batch on the
\* network and takes no further record from the input stream.  The loop's
\* select takes a record when it runs the input case although ctx.Done()
\* is ready as well.
C16_NothingConsumedAfterCancel ==
    [][ctxDone /\ Batching
          => submissions' = submissions /\ received' = received]_vars


\* a task is blocked sending on one of its outlets
Emitting ==
    \/ bpc \in {"sendErr", "sendResult", "sendItemErr"}
    \/ ipc \in {"sendErr", "sendLead"}

\* a task has returned and its deferred calls have closed both outlets
TaskEnded ==
    \/ bpc = "done" /\ closed = <<"errs", "results">>
    \/ ipc = "done" /\ closed = <<"errs", "leads">>

\* C17: if ctx is cancelled while the task of BulkCreateFromChan or of
\* IteratorChan is blocked sending on an outlet, the task ends and closes
\* both outlets, whether or not the consumer ever receives again.
C17_CancelledEmitEnds ==
    (Emitting /\ ctxDone) ~> TaskEnded

\* ctx was cancelled while a flush was sending its results to a consumer
\* that took none: the task has ended, the batch still in place
C17_Witness ==
    /\ bpc = "done"
    /\ ctxDone
    /\ closed = <<"errs", "results">>
    /\ trigger = "size"
    /\ Len(batch) = maxBatchSize
    /\ emitted = NoEmitted
    /\ errBuf = <<>>


\* a flush is sending the entries of a result BulkCreate returned
EmittingResult == bpc \in {"sendResult", "sendItemErr"}

\* the errors flush composes from the first k entries of Errors
ItemErrs(o, k) == [i \in 1..k |-> ItemErr(o.Errors[i])]

\* C18: for a batch BulkCreate returned a result for, with created entries C
\* and per-record errors E, and with ctx not cancelled: while flush emits,
\* what it has sent is a prefix of C on the results outlet followed by a
\* prefix of the errors of E on the errors outlet; when it completes it has
\* sent exactly the |C| entries of C and exactly |E| errors, the i-th
\* carrying the index and message of the i-th entry of E.
C18_OneEntryPerOutcome ==
    /\ [](EmittingResult /\ ~ctxDone =>
             /\ outcome.err = NilErr
             /\ emitted.results =
                   SubSeq(outcome.Created, 1,
                          IF bpc = "sendResult" THEN idx ELSE Len(outcome.Created))
             /\ emitted.errs = ItemErrs(outcome, IF bpc = "sendResult" THEN 0 ELSE idx))
    /\ [][EmittingResult /\ ~EmittingResult' /\ ~ctxDone =>
             /\ emitted'.results = outcome.Created
             /\ Len(emitted'.errs) = Len(outcome.Errors)
             /\ \A i \in DOMAIN outcome.Errors :
                   /\ emitted'.errs[i].kind = "item"
                   /\ emitted'.errs[i].at = outcome.Errors[i].Index
                   /\ emitted'.errs[i].cause = outcome.Errors[i].Message
             /\ batch' = <<>>]_vars

\* three records, two created and one failed: two results and one error
\* have been sent
C18_Witness ==
    /\ Batching
    /\ ~ctxDone
    /\ bpc \in {"select", "done"}
    /\ Len(handed) = 1
    /\ Len(handed[1].leads) = 3
    /\ emitted.results = <<Created(2), Created(0)>>
    /\ emitted.errs = <<Error("item", 1, "rejected", 0, "", "", Zero64)>>


\* the records of a sequence of leads
Records(leads) == {leads[i] : i \in DOMAIN leads}

\* no record of the batch belongs to a batch whose call failed as a whole,
\* once flush has dealt with that failure
NoneResubmitted ==
    Batching /\ bpc # "sendErr" =>
        \A i \in DOMAIN discarded : Records(batch) \cap Records(discarded[i]) = {}

\* C19, as stated: when the bulk-create call for a batch fails as a whole,
\* flush emits exactly one error for the batch, emits no result for it,
\* discards its records and never submits any of them again.  With ctx
\* cancelled the select of flush may run the case of ctx.Done(): no error
\* is emitted then.
C19_WholeFailureOneError ==
    /\ []NoneResubmitted
    /\ [][bpc = "sendErr" /\ bpc' # "sendErr" =>
             /\ emitted'.errs = <<outcome.err>>
             /\ emitted'.results = <<>>
             /\ batch' = <<>>]_vars

\* C19, amended: the one error is emitted unless ctx is cancelled; no result
\* is emitted, the records are discarded and never submitted again in
\* either case.
C19_WholeFailureOneErrorUnlessCancelled ==
    /\ []NoneResubmitted
    /\ [][bpc = "sendErr" /\ bpc' # "sendErr" =>
             /\ \/ emitted'.errs = <<outcome.err>>
                \/ ctxDone /\ emitted'.errs = <<>>
             /\ emitted'.results = <<>>
             /\ batch' = <<>>]_vars

\* the call for the first two records failed, its error was emitted, and
\* the next batch holds the third record only
C19_Witness ==
    /\ Batching
    /\ ~ctxDone
    /\ discarded = <<Arrived(2)>>
    /\ Len(handed) = 2
    /\ handed[2].leads = <<Lead(stream, 3)>>
    /\ bpc = "call"
    /\ errBuf # <<>>


\* the outlets of the task that runs, in the order its deferred calls close
\* them
Outlets == IF ipc = "idle" THEN <<"errs", "results">> ELSE <<"errs", "leads">>

\* the task that runs has returned
TaskReturned == bpc = "done" \/ ipc = "done"

\* C20: for IteratorChan and for BulkCreateFromChan, each of the two outlets
\* is closed exactly once, by the task's return and in every case it
\* returns in; nothing is sent on an outlet after it is closed.
C20_OutletsClosedOnce ==
    /\ [](Batching \/ ipc # "idle" =>
             /\ TaskReturned => closed = Outlets
             /\ ~TaskReturned => closed = <<>>)
    /\ [][closed # <<>> =>
             /\ closed' = closed
             /\ emitted' = emitted
             /\ errBuf' = errBuf \/ errBuf' = Tail(errBuf)]_vars

\* IteratorChan's task has sent a page, failed to fetch the next, sent the
\* error and closed both outlets
C20_Witness ==
    /\ ipc = "done"
    /\ ~ctxDone
    /\ closed = <<"errs", "leads">>
    /\ Len(fetched) = 2
    /\ emitted.results # <<>>
    /\ Len(emitted.errs) = 1

(***************************************************************************)
(* Properties of the outlets, the paged fetcher and the validated calls.   *)
(***************************************************************************)
\* the task is about to send its final error: the error of the flush of the
\* closed stream, or the error of a page request
FinalError == (bpc = "sendErr" /\ trigger = "close") \/ ipc = "sendErr"

\* the final error is in the errors outlet and the task has returned and
\* closed both outlets
FinalErrorDelivered ==
    /\ TaskReturned
    /\ Len(emitted.errs) = 1
    /\ closed = Outlets

\* C21: a task that has its final error to send, with no cancellation, sends
\* it, returns and closes both outlets, whether or not the consumer takes
\* anything from the errors outlet.
C21_FinalErrorNeverBlocks ==
    (FinalError /\ ~ctxDone) ~> (ctxDone \/ FinalErrorDelivered)

\* the leads of the server's k-th page, in the order the server lists them
PageLeads(k) == [j \in 1..pages.sizes[k] |-> PageLead(k, j)]

\* the leads of the server's pages a to b, page after page
RECURSIVE LeadsOf(_, _)
LeadsOf(a, b) == IF a > b THEN <<>> ELSE PageLeads(a) \o LeadsOf(a + 1, b)

\* the page the caller's options start the listing at, and the last page
FirstPage == PageAt(ListParams(opts).cursor)

LastPage == Len(pages.sizes)

\* every page but the last signals more pages with a continuation cursor,
\* and the listing starts at a page the server has
PagesChained == pages.mute = 0 /\ FirstPage <= LastPage

\* a paged run is under way or over
Paging == ipc \notin {"idle", "start"}

\* the sequence has run to its end: no page request failed, ctx was not
\* cancelled and the consumer did not stop
RanToEnd ==
    /\ ipc = "done"
    /\ outcome.err = NilErr
    /\ ~ctxDone
    /\ ~stopped

\* C22: against a server whose pages all but the last signal more pages with
\* a cursor, the paged fetcher yields the leads of the pages one page after
\* the other, each in the server's order, yields every lead of a page
\* before it requests the next page, and has made exactly one request per
\* page when the sequence has run to its end.
C22_PagesInOrder ==
    Paging /\ PagesChained =>
        LET r == Len(fetched)
        IN  /\ r <= LastPage - FirstPage + 1
            /\ \E n \in 0..Len(LeadsOf(FirstPage, FirstPage + r - 1)) :
                  emitted.results = SubSeq(LeadsOf(FirstPage, FirstPage + r - 1), 1, n)
            /\ Len(emitted.results) >= Len(LeadsOf(FirstPage, FirstPage + r - 2))
            /\ RanToEnd =>
                  /\ emitted.results = LeadsOf(FirstPage, LastPage)
                  /\ r = LastPage - FirstPage + 1

\* C23: once the yield of the consumer of Iterator's sequence has returned
\* false, iterate has returned: no page is requested and nothing is yielded
\* any more, whether or not the last page signalled more pages.
C23_NoRequestAfterStop ==
    /\ [](stopped => ipc = "done")
    /\ [][stopped => fetched' = fetched /\ emitted' = emitted]_vars

\* the consumer stopped at the last lead of a first page that signalled more
\* pages: the second page was never requested
C23_Witness ==
    /\ stopped
    /\ shape = "pull"
    /\ ipc = "done"
    /\ outcome.err = NilErr
    /\ page.HasMore
    /\ page.NextCursor # NoCursor
    /\ idx + 1 = Len(page.Leads)
    /\ Len(fetched) = 1

\* the leads of the pages List has returned, page after page
RECURSIVE LeadsIn(_)
LeadsIn(sv) == IF sv = <<>> THEN <<>> ELSE Head(sv).Leads \o LeadsIn(Tail(sv))

\* iterate has called yield with the error List returned
YieldingErr == ipc = "sendErr"

\* C24: when List returns an error, every lead of the pages returned before
\* has been yielded; iterate yields the error and returns: it yields nothing
\* and requests no page after it, and the consumer of Iterator's sequence
\* gets the error as the last item.
C24_ErrorIsLastItem ==
    /\ [](YieldingErr =>
             /\ outcome.err # NilErr
             /\ emitted.results = LeadsIn(served)
             /\ emitted.errs = <<>>)
    /\ [][YieldingErr =>
             /\ fetched' = fetched
             /\ emitted'.results = emitted.results
             /\ ipc' \in {"sendErr", "done"}]_vars
    /\ [][YieldingErr /\ shape = "pull" /\ ipc' # ipc =>
             emitted'.errs = <<outcome.err>>]_vars
    /\ [][emitted.errs # <<>> =>
             /\ ipc = "done"
             /\ emitted' = emitted
             /\ fetched' = fetched]_vars

\* the second page request of Iterator's sequence failed: the consumer got
\* the two leads of the first page, then the error
C24_Witness ==
    /\ shape = "pull"
    /\ ipc = "done"
    /\ ~ctxDone
    /\ Len(fetched) = 2
    /\ Len(served) = 1
    /\ Len(emitted.results) = MaxPageLen
    /\ emitted.errs = <<outcome.err>>
    /\ outcome.err.kind = "api"

\* the parameters of the caller's own options, with the sort, the filters
\* and the limit the caller asked for
CallerParams == ListParams(opts)

\* the request has the caller's sort, filters and limit
SameQuery(r) == [r EXCEPT !.cursor = NoCursor] = [CallerParams EXCEPT !.cursor = NoCursor]

\* C29: the first page request has no cursor, and every later page
\* request has the caller's sort, filters and limit and the cursor the page
\* before it returned.
C29_OnlyFirstOmitsCursor ==
    \A i \in 1..Len(fetched) :
        /\ SameQuery(fetched[i])
        /\ i = 1 => fetched[i].cursor = NoCursor
        /\ i > 1 => /\ fetched[i].cursor # NoCursor
                    /\ fetched[i].cursor = served[i - 1].NextCursor

\* C29, amended: the first page request is the request of the caller's
\* options, a cursor of the caller included; every later page request has
\* the caller's sort, filters and limit and the cursor the page before it
\* returned, or, when that page returned an empty cursor, the cursor of the
\* caller's options again.
C29_CursorOfPrecedingPage ==
    \A i \in 1..Len(fetched) :
        /\ SameQuery(fetched[i])
        /\ i = 1 => fetched[i].cursor = CallerParams.cursor
        /\ i > 1 => fetched[i].cursor =
                        IF served[i - 1].NextCursor # NoCursor
                        THEN served[i - 1].NextCursor
                        ELSE CallerParams.cursor

\* a caller with a sort, a filter and a limit: the second page request has
\* them and the cursor of the first page
C29_Witness ==
    /\ Len(fetched) = 2
    /\ fetched[1] = CallerParams
    /\ CallerParams.cursor = NoCursor
    /\ CallerParams.limit = 1
    /\ CallerParams.sort_by = "name"
    /\ CallerParams.filter # <<>>
    /\ served[1].NextCursor = CursorOf(1)
    /\ fetched[2] = [CallerParams EXCEPT !.cursor = CursorOf(1)]

\* the first lead of a list that is nil or lacks its name or its source, or
\* 0 when the list has none
FirstBad(leads) ==
    LET bad == {i \in 1..Len(leads) :
                   IsNil(leads[i]) \/ leads[i].Name = "" \/ leads[i].Source = ""}
    IN  IF bad = {} THEN 0 ELSE CHOOSE i \in bad : \A j \in bad : i <= j

\* the call has an argument that input validation rejects: an empty id, a
\* nil input, a nil lead or one without its name or source, an empty note
\* content, a list that is empty, longer than 100 or has a lead without its
\* name or source
Invalid ==
    \/ fn \in IdOps /\ arg.id = ""
    \/ fn = "Update" /\ ~arg.input
    \/ fn = "Create" /\ (IsNil(arg.lead) \/ arg.lead.Name = "" \/ arg.lead.Source = "")
    \/ fn \in NoteOps /\ arg.content = ""
    \/ fn = "BulkCreate" /\
          \/ Len(arg.leads) = 0
          \/ Len(arg.leads) > 100
          \/ FirstBad(arg.leads) > 0 /\ ~IsNil(arg.leads[FirstBad(arg.leads)])

\* C25: a call with an argument that input validation rejects returns a
\* validation error in its first step, without an attempt on the network
\* and without a backoff wait, whether or not ctx is cancelled.
C25_RejectedBeforeNetwork ==
    fn \in Ops /\ Invalid =>
        /\ pc \in {"start", "done"}
        /\ attempts = 0
        /\ waits = 0
        /\ history = <<>>
        /\ pc = "done" => ret.kind = "validation" /\ ~decoded

\* CreateNote with an id and an empty content has returned its error
C25_Witness ==
    /\ fn = "CreateNote"
    /\ arg.id # ""
    /\ arg.content = ""
    /\ pc = "done"
    /\ ret = ValidationErr("content is required", 0)
    /\ attempts = 0
    /\ waits = 0

\* the batches flush has called the bulk-create operation with, one after
\* the other
RECURSIVE Submitted(_)
Submitted(h) == IF h = <<>> THEN <<>> ELSE Head(h).leads \o Submitted(Tail(h))

\* the records the task holds that no flush has taken yet
Pending == IF bpc \in {"select", "done"} THEN batch ELSE <<>>

\* C26: as long as ctx is not cancelled, the batches the task has submitted
\* to the bulk-create operation, in the order of the calls, followed by the
\* records still in its batch, are the records it has taken from the input
\* stream, in the order it took them; when the task has returned, the
\* submitted batches are all the records taken.
C26_BatchesAreTheStream ==
    Batching /\ ~ctxDone =>
        /\ Submitted(handed) \o Pending = Arrived(received)
        /\ bpc = "done" => Submitted(handed) = Arrived(received)

\* a stream of one record more than a batch holds, then closed: one batch
\* submitted for its size, the last record submitted at the close
C26_Witness ==
    /\ bpc = "done"
    /\ ~ctxDone
    /\ received = maxBatchSize + 1
    /\ Len(handed) = 2
    /\ handed[1].by = "size"
    /\ Len(handed[1].leads) = maxBatchSize
    /\ handed[2] = [by |-> "close", leads |-> <<Lead(stream, maxBatchSize + 1)>>]

\* C27: Client.do is in a backoff wait only when the attempt that failed
\* was not the last one the retry bound allows; after a retriable failure
\* of the last attempt it has returned without a wait, so that every wait
\* is followed by an attempt unless ctx is cancelled.
C27_WaitsOnlyBeforeRetry ==
    /\ pc = "backoff" => attempt + 1 < maxRetries
    /\ pc = "done" /\ ~ctxDone => waits < attempts \/ waits = 0

\* flush is running: it waits for BulkCreate or at one of its selects
Flushing == Batching /\ bpc \in {"call", "sendErr", "sendResult", "sendItemErr"}

\* C28: whenever a flush that called BulkCreate with the batch returns, be
\* it after it has sent everything, after the error of the whole call or
\* after a cancelled send, the task's batch is empty.
C28_BatchEmptyAfterFlush ==
    [][/\ Flushing \/ (bpc = "select" /\ handed' # handed)
       /\ bpc' \in {"select", "done"}
       => batch' = <<>>]_vars

\* BulkCreate has returned the result of a request to its caller, or to
\* flush, which is sending its entries
HoldsResult ==
    /\ bpc \in {"returned", "sendResult", "sendItemErr"}
    /\ submissions > 0
    /\ outcome.err = NilErr

\* C30: a bulk-create result is accepted without an error only when its
\* created entries and its per-record errors together are as many as the
\* leads of the batch submitted; any other response is an error.
C30_MismatchIsAnError ==
    HoldsResult => Len(outcome.Created) + Len(outcome.Errors) = Len(batch)

(***************************************************************************)
(* Properties of the order of the results, the timer, the retry bound and  *)
(* the errors of a stream.                                                 *)
(***************************************************************************)
\* C31: the results a flush has sent on the results outlet are in
\* increasing order of their position in the batch submitted, whatever the
\* order the server lists the created records in.
C31_ResultsInBatchOrder ==
    Batching =>
        \A i, j \in 1..Len(emitted.results) :
            i < j => emitted.results[i].Index <= emitted.results[j].Index


\* the task waits at the select of its loop: it is neither in flush nor
\* has it returned
WaitingForInput == Batching /\ bpc = "select"

\* C32: while the task waits for input, its timer is armed exactly when the
\* batch holds a record; the timer is armed only by the arrival of the
\* first record of a batch, never by an arrival into a batch that holds one.
C32_TimerArmedIffPending ==
    WaitingForInput => (timerArmed <=> batch # <<>>)


\* C33: for every retry bound, zero and negative bounds included, do
\* returns nil only when an attempt got a response with a 2xx status.
C33_NilOnlyAfterSuccess ==
    (pc = "done" /\ ret = NilErr) =>
        /\ attempts > 0
        /\ resp.kind = "response"
        /\ IsSuccess(resp.status)


\* the delay backoff computed, before the jitter was added
ShiftedDelay(d, jit) == The({Add(d, minus) : minus \in {Neg(I64(jit))}})

\* C34: for every attempt index a (WithMaxRetries takes any bound, so every
\* index is below a bound that can be configured) and no hint, the delay
\* DefaultBaseDelay << a that backoff computes is positive and at least the
\* delay it computes for a - 1.
C34_ShiftDoesNotOverflow ==
    BackoffNoHint =>
        /\ Less(Zero64, ShiftedDelay(out.d, arg.jit))
        /\ arg.attempt > 0 =>
              \E before \in {backoffDelay(arg.attempt - 1, Zero64, arg.jit)} :
                 LessEq(ShiftedDelay(before, arg.jit), ShiftedDelay(out.d, arg.jit))


\* C35: with no cancellation, a stream that is closed, calls of BulkCreate
\* that return and a consumer that reads the errors outlet only after the
\* results outlet is closed, the task eventually returns and closes both
\* outlets, however many errors its flushes produce.
C35_DrainedRunClosesOutlets ==
    <>(bpc = "done" /\ closed = <<"errs", "results">>)


\* a list holds a record without a name or without a source
Incomplete(leads) ==
    \E i \in DOMAIN leads : leads[i].Name = "" \/ leads[i].Source = ""

\* flush has called BulkCreate with a batch that holds such a record and
\* is about to send the error it got
IncompleteFlush == Batching /\ bpc = "sendErr" /\ Incomplete(batch)

\* flush calls BulkCreate with a batch that holds such a record
HandsIncomplete ==
    /\ Batching
    /\ handed' # handed
    /\ Incomplete(handed'[Len(handed')].leads)

\* C36, as stated: the flush of a batch that holds a record without a name
\* or without a source issues no network request, emits exactly one error
\* on the errors outlet and no result, and drops every record of the batch.
\* With ctx cancelled the select of flush may run the case of ctx.Done():
\* no error is emitted then.
C36_IncompleteBatchOneError ==
    /\ [](Batching => ~Incomplete(request))
    /\ [][HandsIncomplete =>
             /\ bpc' = "sendErr"
             /\ outcome'.err.kind = "validation"
             /\ submissions' = submissions]_vars
    /\ [][IncompleteFlush /\ bpc' # "sendErr" =>
             /\ emitted'.errs = <<outcome.err>>
             /\ emitted'.results = <<>>
             /\ batch' = <<>>
             /\ submissions' = submissions]_vars

\* C36, amended: the one error is emitted unless ctx is cancelled; no
\* network request is issued, no result is emitted and every record of the
\* batch is dropped in either case.
C36_IncompleteBatchOneErrorUnlessCancelled ==
    /\ [](Batching => ~Incomplete(request))
    /\ [][HandsIncomplete =>
             /\ bpc' = "sendErr"
             /\ outcome'.err.kind = "validation"
             /\ submissions' = submissions]_vars
    /\ [][IncompleteFlush /\ bpc' # "sendErr" =>
             /\ \/ emitted'.errs = <<outcome.err>>
                \/ ctxDone /\ emitted'.errs = <<>>
             /\ emitted'.results = <<>>
             /\ batch' = <<>>
             /\ submissions' = submissions]_vars

\* a valid record and a record without a source were flushed as one batch:
\* no request was made, the one error is in the errors outlet, nothing is
\* on the results outlet and the batch is empty
C36_Witness ==
    /\ Batching
    /\ ~ctxDone
    /\ bpc = "select"
    /\ stream.flaw = [id |-> 2, field |-> "Source"]
    /\ discarded = <<Arrived(2)>>
    /\ submissions = 0
    /\ emitted = [results |-> <<>>, errs |-> <<ValidationErr("source is required", 1)>>]
    /\ errBuf = <<ValidationErr("source is required", 1)>>
    /\ batch = <<>>

====
